---- MODULE Spec2Model ----
(***************************************************************************)
(* TV wall: the signaling hub (server.ts), the broadcaster hook and the    *)
(* viewer hook (lib/webrtc.ts) and the viewer page (ClientView.tsx).       *)
(*                                                                         *)
(* A socket.emit of a page and the hub handler it triggers are one step:   *)
(* the page's part of the step is the emit, the hub's part is the handler. *)
(* What the hub emits is appended to the per-socket FIFO inbox and is      *)
(* handled by the receiving page in a later step of its own.               *)
(***************************************************************************)
EXTENDS Integers, Sequences, FiniteSets, TLC

\* ------------------------------------------------------------------ bounds
MaxSockets == 4       \* socket ids handed out over a run (connects and reconnects)
HubSockets == 2       \* sockets that connect when the hub is run under any input
MaxUpdates == 2       \* update-client-config messages the admins send
MaxPcs     == 3       \* RTCPeerConnection objects constructed over a run
MaxFails   == 1       \* ICE failures the network produces
MaxDrops   == 1       \* transports the network drops
IceFlood   == 65      \* ICE candidates the peer connection of a viewer gathers in the ICE run
MaxOrder   == 3       \* ICE candidates the sockets send in the ordering run
MaxQueue   == 3       \* messages a socket leaves unhandled in the ordering run

\* --------------------------------------------------------------- constants
DefaultWidth  == 1920
DefaultHeight == 1080
SignificantChange == 2

\* ------------------------------------------------------------------ values
NoSocket == 0                       \* JS null / undefined socket id
SocketIds == 1..MaxSockets
NoRegion == << >>                   \* JS undefined region
NoConfig == << >>                   \* JS null config
ClientIds == {"wall-a", "wall-b"}
Admins == {"a1", "a2"}              \* admin pages: each runs useBroadcaster
Viewers == {"v1", "v2"}             \* viewer pages
Pages == Admins \cup Viewers

Rect(x, y, w, h, tw, th) ==
  [x |-> x, y |-> y, width |-> w, height |-> h, totalWidth |-> tw, totalHeight |-> th]

\* the region get-client-config gives a new record
DefaultRegion == Rect(0, 0, DefaultWidth, DefaultHeight, DefaultWidth, DefaultHeight)

\* the rectangles the admin editor sends (BoxGrid sends no totalWidth/totalHeight: 0 here)
RegionA  == Rect(0, 0, 640, 360, 0, 0)
RegionA1 == Rect(1, 0, 640, 360, 0, 0)
RegionD  == Rect(10, 0, DefaultWidth, DefaultHeight, 0, 0)
\* rectangles any socket may send the hub: one that runs past the right edge of
\* the source it names, one of no width
RegionOver == Rect(1000, 0, DefaultWidth, DefaultHeight, DefaultWidth, DefaultHeight)
RegionZero == Rect(0, 0, 0, 360, 0, 0)

VARIABLES
  \* hub (server.ts)
  clients,        \* clientId -> ClientConfig, a partial function
  clientKeys,     \* Object.keys(clients): the clientIds in insertion order
  broadcaster,    \* socket id of the broadcaster, or NoSocket
  \* transport
  open,           \* sockets the hub holds a connection for
  sockKind,       \* socket id -> "none" | "raw" | "admin" | "viewer"
  nextSock,       \* the next socket id to hand out
  inbox,          \* socket id -> messages emitted to it and not yet handled
  lastEvent,      \* the hub handler that ran in the last step, if one did
  \* pages
  page,           \* page -> [state, sock, mounted]: its socket.io client
  admin,          \* admin page -> the refs and state of useBroadcaster
  viewer,         \* viewer page -> the state of ClientView and of useViewer
  pcs,            \* the RTCPeerConnection objects constructed so far, by id
  media,          \* canvas capture tracks: [nextTrack, stopped]
  budget          \* what the environment may still do in this run

hubVars == <<clients, clientKeys, broadcaster>>
netVars == <<open, sockKind, nextSock>>
pageVars == <<page, admin, viewer, pcs, media, budget>>
vars == <<clients, clientKeys, broadcaster, open, sockKind, nextSock, inbox, lastEvent,
          page, admin, viewer, pcs, media, budget>>

Abs(n) == IF n < 0 THEN -n ELSE n

\* ------------------------------------------------------------- transport
EmptyInbox == [s \in SocketIds |-> << >>]

\* the events a page has a listener for (socket.on)
Listens(kind, type) ==
  CASE kind = "raw"    -> TRUE
    [] kind = "admin"  -> type \in {"clients-update", "new-viewer", "viewer-answer",
                                    "viewer-ice-candidate", "viewer-disconnect"}
    [] kind = "viewer" -> type \in {"client-config", "region-update",
                                    "broadcaster-offer", "broadcaster-ice-candidate"}
    [] OTHER           -> FALSE

\* a transport that keeps a message for a socket that is gone
SendToHeld(ib, op, s, m) ==
  [t \in SocketIds |->
     IF t = s /\ Listens(sockKind[t], m.type) THEN Append(ib[t], m) ELSE ib[t]]

\* a transport that hands a message over ahead of the ones already waiting
SendToFront(ib, op, s, m) ==
  [t \in SocketIds |->
     IF t = s /\ t \in op /\ Listens(sockKind[t], m.type) THEN <<m>> \o ib[t] ELSE ib[t]]

\* io.to(s).emit / socket.emit: to socket s if it is connected
SendTo(ib, op, s, m) ==
  [t \in SocketIds |->
     IF t = s /\ t \in op /\ Listens(sockKind[t], m.type) THEN Append(ib[t], m) ELSE ib[t]]

\* io.emit: to every connected socket
Broadcast(ib, op, m) ==
  [t \in SocketIds |->
     IF t \in op /\ Listens(sockKind[t], m.type) THEN Append(ib[t], m) ELSE ib[t]]

RECURSIVE SendAll(_, _, _, _)
SendAll(ib, op, s, ms) ==
  IF ms = << >> THEN ib ELSE SendAll(SendTo(ib, op, s, Head(ms)), op, s, Tail(ms))

\* ------------------------------------------------------------------- hub
\* Object.values(clients)
Snapshot(cl, keys) == [i \in 1..Len(keys) |-> cl[keys[i]]]
ClientsUpdate(cl, keys) == [type |-> "clients-update", clients |-> Snapshot(cl, keys)]

Truthy(s) == s # NoSocket

\* what the handler was, on which socket, for which clientId, with which argument
\* (the viewerId of a broadcaster's signaling message, the region of a
\* registration or of an update), and the broadcaster slot it found
EventOf(type, s, c, arg) ==
  [type |-> type, socket |-> s, clientId |-> c, arg |-> arg, prev |-> broadcaster]
Event(type, s, c) == EventOf(type, s, c, << >>)

\* the new-viewer notifications a registering broadcaster is sent
RECURSIVE NewViewerMsgs(_, _)
NewViewerMsgs(cl, keys) ==
  IF keys = << >> THEN << >>
  ELSE LET c == Head(keys)
           rest == NewViewerMsgs(cl, Tail(keys))
       IN IF Truthy(cl[c].socketId) /\ cl[c].connected
          THEN <<[type |-> "new-viewer", viewerId |-> cl[c].socketId]>> \o rest
          ELSE rest

\* a hub that refuses a registration while the slot is taken
RegisterAsBroadcasterKeepsFirst(s, ib) ==
  /\ lastEvent' = Event("register-as-broadcaster", s, "")
  /\ UNCHANGED <<clients, clientKeys>>
  /\ IF broadcaster = NoSocket
     THEN /\ broadcaster' = s
          /\ inbox' = SendAll(ib, open, s, NewViewerMsgs(clients, clientKeys))
     ELSE /\ UNCHANGED broadcaster
          /\ inbox' = ib

\* socket.on('register-as-broadcaster')
RegisterAsBroadcaster(s, ib) ==
  /\ lastEvent' = Event("register-as-broadcaster", s, "")
  /\ UNCHANGED <<clients, clientKeys>>
  /\ IF broadcaster # s
     THEN /\ broadcaster' = s
          /\ inbox' = SendAll(ib, open, s, NewViewerMsgs(clients, clientKeys))
     ELSE /\ UNCHANGED broadcaster
          /\ inbox' = ib

\* { ...clients[clientId], ...config, socketId, connected: true }: config is
\* [clientId, region], region NoRegion when the key is absent
MergedRecord(s, config) ==
  LET c == config.clientId
      old == IF c \in DOMAIN clients THEN clients[c].region ELSE NoRegion
  IN [clientId |-> c, socketId |-> s, connected |-> TRUE,
      region |-> IF config.region # NoRegion THEN config.region ELSE old]

PutClient(c, rec) == [k \in DOMAIN clients \cup {c} |-> IF k = c THEN rec ELSE clients[k]]
PutKey(c) == IF c \in DOMAIN clients THEN clientKeys ELSE Append(clientKeys, c)

\* socket.on('register-as-viewer')
RegisterAsViewer(s, config, ib) ==
  /\ lastEvent' = EventOf("register-as-viewer", s, config.clientId, config.region)
  /\ IF config.clientId = ""
     THEN /\ UNCHANGED <<clients, clientKeys, broadcaster>>
          /\ inbox' = ib
     ELSE LET c == config.clientId
              cl == PutClient(c, MergedRecord(s, config))
              keys == PutKey(c)
              ib1 == IF Truthy(broadcaster)
                     THEN SendTo(ib, open, broadcaster, [type |-> "new-viewer", viewerId |-> s])
                     ELSE ib
          IN /\ clients' = cl
             /\ clientKeys' = keys
             /\ UNCHANGED broadcaster
             /\ inbox' = Broadcast(ib1, open, ClientsUpdate(cl, keys))

\* socket.on('get-client-config')
GetClientConfig(s, c, ib) ==
  /\ lastEvent' = Event("get-client-config", s, c)
  /\ LET rec == IF c \notin DOMAIN clients
                THEN [clientId |-> c, socketId |-> s, connected |-> TRUE,
                      region |-> DefaultRegion]
                ELSE [clients[c] EXCEPT !.socketId = s, !.connected = TRUE]
         cl == PutClient(c, rec)
         keys == PutKey(c)
         ib1 == SendTo(ib, open, s, [type |-> "client-config", config |-> rec])
     IN /\ clients' = cl
        /\ clientKeys' = keys
        /\ UNCHANGED broadcaster
        /\ inbox' = Broadcast(ib1, open, ClientsUpdate(cl, keys))

\* socket.on('get-clients')
GetClients(s, ib) ==
  /\ lastEvent' = Event("get-clients", s, "")
  /\ UNCHANGED <<clients, clientKeys, broadcaster>>
  /\ inbox' = SendTo(ib, open, s, ClientsUpdate(clients, clientKeys))

\* hasSignificantChange of the first update-client-config handler
HasSignificantChange(newRegion, prevRegion) ==
  \/ Abs(newRegion.x - prevRegion.x) > SignificantChange
  \/ Abs(newRegion.y - prevRegion.y) > SignificantChange
  \/ Abs(newRegion.width - prevRegion.width) > SignificantChange
  \/ Abs(newRegion.height - prevRegion.height) > SignificantChange
  \/ newRegion.totalWidth # prevRegion.totalWidth
  \/ newRegion.totalHeight # prevRegion.totalHeight

\* { ...prevConfig, ...config }: config is [region], NoRegion when the key is absent
UpdatedRecord(prev, config) ==
  IF config.region # NoRegion THEN [prev EXCEPT !.region = config.region] ELSE prev

\* socket.on('update-client-config'), the handler with the significance test
UpdateClientConfig(s, c, config, ib) ==
  /\ lastEvent' = EventOf("update-client-config", s, c, config.region)
  /\ UNCHANGED <<clientKeys, broadcaster>>
  /\ IF c \notin DOMAIN clients
     THEN /\ UNCHANGED clients
          /\ inbox' = ib
     ELSE LET prevConfig == clients[c]
              isRegionOnlyUpdate == config.region # NoRegion
              cl == PutClient(c, UpdatedRecord(prevConfig, config))
              upd == ClientsUpdate(cl, clientKeys)
              toConnected(b) == IF Truthy(cl[c].socketId) /\ cl[c].connected
                                THEN Broadcast(b, open, upd) ELSE b
          IN /\ clients' = cl
             /\ IF isRegionOnlyUpdate /\ prevConfig.region # NoRegion
                THEN IF HasSignificantChange(config.region, prevConfig.region)
                     THEN inbox' = toConnected(Broadcast(ib, open, upd))
                     ELSE inbox' = Broadcast(ib, open, upd)
                ELSE inbox' = toConnected(ib)

\* socket.on('update-client-config'), the handler that sends region-update
UpdateClientConfigV2(s, c, config, ib) ==
  /\ lastEvent' = EventOf("update-client-config", s, c, config.region)
  /\ UNCHANGED <<clientKeys, broadcaster>>
  /\ IF c \notin DOMAIN clients
     THEN /\ UNCHANGED clients
          /\ inbox' = ib
     ELSE LET cl == PutClient(c, UpdatedRecord(clients[c], config))
              ib1 == IF config.region # NoRegion /\ Truthy(cl[c].socketId)
                     THEN SendTo(ib, open, cl[c].socketId,
                                 [type |-> "region-update", clientId |-> c,
                                  region |-> cl[c].region])
                     ELSE IF Truthy(cl[c].socketId)
                          THEN SendTo(ib, open, cl[c].socketId,
                                      [type |-> "client-config", config |-> cl[c]])
                          ELSE ib
          IN /\ clients' = cl
             /\ inbox' = Broadcast(ib1, open, ClientsUpdate(cl, clientKeys))

\* a hub that sends an offer to every connected socket
BroadcasterOfferToAll(s, viewerId, offer, ib) ==
  /\ lastEvent' = EventOf("broadcaster-offer", s, "", viewerId)
  /\ UNCHANGED <<clients, clientKeys, broadcaster>>
  /\ inbox' = IF ~Truthy(viewerId) THEN ib
              ELSE Broadcast(ib, open, [type |-> "broadcaster-offer", offer |-> offer])

\* socket.on('broadcaster-offer')
BroadcasterOffer(s, viewerId, offer, ib) ==
  /\ lastEvent' = EventOf("broadcaster-offer", s, "", viewerId)
  /\ UNCHANGED <<clients, clientKeys, broadcaster>>
  /\ inbox' = IF ~Truthy(viewerId) THEN ib
              ELSE SendTo(ib, open, viewerId, [type |-> "broadcaster-offer", offer |-> offer])

\* socket.on('viewer-answer')
ViewerAnswer(s, answer, ib) ==
  /\ lastEvent' = Event("viewer-answer", s, "")
  /\ UNCHANGED <<clients, clientKeys, broadcaster>>
  /\ inbox' = IF ~Truthy(broadcaster) THEN ib
              ELSE SendTo(ib, open, broadcaster,
                          [type |-> "viewer-answer", viewerId |-> s, answer |-> answer])

\* socket.on('broadcaster-ice-candidate')
BroadcasterIceCandidate(s, viewerId, candidate, ib) ==
  /\ lastEvent' = EventOf("broadcaster-ice-candidate", s, "", viewerId)
  /\ UNCHANGED <<clients, clientKeys, broadcaster>>
  /\ inbox' = IF ~Truthy(viewerId) THEN ib
              ELSE SendTo(ib, open, viewerId,
                          [type |-> "broadcaster-ice-candidate", candidate |-> candidate])

\* socket.on('viewer-ice-candidate')
ViewerIceCandidate(s, candidate, ib) ==
  /\ lastEvent' = Event("viewer-ice-candidate", s, "")
  /\ UNCHANGED <<clients, clientKeys, broadcaster>>
  /\ inbox' = IF ~Truthy(broadcaster) THEN ib
              ELSE SendTo(ib, open, broadcaster,
                          [type |-> "viewer-ice-candidate", viewerId |-> s,
                           candidate |-> candidate])

\* the viewer-disconnect notifications of a disconnect: one per record bound to s
RECURSIVE ViewerDisconnectMsgs(_, _, _, _)
ViewerDisconnectMsgs(cl, keys, s, b) ==
  IF keys = << >> THEN << >>
  ELSE LET rest == ViewerDisconnectMsgs(cl, Tail(keys), s, b)
       IN IF cl[Head(keys)].socketId = s /\ Truthy(b)
          THEN <<[type |-> "viewer-disconnect", viewerId |-> s]>> \o rest
          ELSE rest

\* a hub that forgets the records of a transport that disconnects
DisconnectDeletes(s, op, ib) ==
  LET b == IF broadcaster = s THEN NoSocket ELSE broadcaster
      keep == {k \in DOMAIN clients : clients[k].socketId # s}
      cl == [k \in keep |-> clients[k]]
      keys == SelectSeq(clientKeys, LAMBDA k : k \in keep)
      ib1 == SendAll(ib, op, b, ViewerDisconnectMsgs(clients, clientKeys, s, b))
  IN /\ lastEvent' = Event("disconnect", s, "")
     /\ broadcaster' = b
     /\ clients' = cl
     /\ clientKeys' = keys
     /\ inbox' = Broadcast(ib1, op, ClientsUpdate(cl, keys))

\* a hub that marks every record disconnected when any transport goes
DisconnectMarksAll(s, op, ib) ==
  LET b == IF broadcaster = s THEN NoSocket ELSE broadcaster
      cl == [k \in DOMAIN clients |-> [clients[k] EXCEPT !.connected = FALSE]]
      ib1 == SendAll(ib, op, b, ViewerDisconnectMsgs(clients, clientKeys, s, b))
  IN /\ lastEvent' = Event("disconnect", s, "")
     /\ broadcaster' = b
     /\ clients' = cl
     /\ UNCHANGED clientKeys
     /\ inbox' = Broadcast(ib1, op, ClientsUpdate(cl, clientKeys))

\* socket.on('disconnect'): op is the set of sockets still connected
Disconnect(s, op, ib) ==
  LET b == IF broadcaster = s THEN NoSocket ELSE broadcaster
      cl == [k \in DOMAIN clients |->
               IF clients[k].socketId = s
               THEN [clients[k] EXCEPT !.connected = FALSE] ELSE clients[k]]
      ib1 == SendAll(ib, op, b, ViewerDisconnectMsgs(clients, clientKeys, s, b))
  IN /\ lastEvent' = Event("disconnect", s, "")
     /\ broadcaster' = b
     /\ clients' = cl
     /\ UNCHANGED clientKeys
     /\ inbox' = Broadcast(ib1, op, ClientsUpdate(cl, clientKeys))

\* ------------------------------------------------- the hub under any input
\* io.on('connection'): a socket.io client connects
RawConnect ==
  /\ nextSock <= HubSockets
  /\ nextSock <= MaxSockets
  /\ nextSock' = nextSock + 1
  /\ open' = open \cup {nextSock}
  /\ sockKind' = [sockKind EXCEPT ![nextSock] = "raw"]
  /\ inbox' = EmptyInbox
  /\ lastEvent' = Event("connection", nextSock, "")
  /\ UNCHANGED hubVars
  /\ UNCHANGED pageVars

RawConfigs == [clientId : ClientIds \cup {""}, region : {NoRegion, RegionA}]
RawUpdates == [region : {NoRegion, RegionA, RegionA1, RegionOver, RegionZero}]

RawRegisterAsBroadcaster ==
  \E s \in open : RegisterAsBroadcaster(s, EmptyInbox) /\ UNCHANGED netVars /\ UNCHANGED pageVars
RawRegisterAsViewer ==
  \E s \in open, config \in RawConfigs :
     RegisterAsViewer(s, config, EmptyInbox) /\ UNCHANGED netVars /\ UNCHANGED pageVars
RawGetClientConfig ==
  \E s \in open, c \in ClientIds : GetClientConfig(s, c, EmptyInbox) /\ UNCHANGED netVars /\ UNCHANGED pageVars
RawGetClients ==
  \E s \in open : GetClients(s, EmptyInbox) /\ UNCHANGED netVars /\ UNCHANGED pageVars
RawUpdateClientConfig ==
  \E s \in open, c \in ClientIds, config \in RawUpdates :
     UpdateClientConfig(s, c, config, EmptyInbox) /\ UNCHANGED netVars /\ UNCHANGED pageVars
RawBroadcasterOffer ==
  \E s \in open, v \in SocketIds \cup {NoSocket} :
     BroadcasterOffer(s, v, [pc |-> 0], EmptyInbox) /\ UNCHANGED netVars /\ UNCHANGED pageVars
RawViewerAnswer ==
  \E s \in open : ViewerAnswer(s, [pc |-> 0], EmptyInbox) /\ UNCHANGED netVars /\ UNCHANGED pageVars
RawBroadcasterIceCandidate ==
  \E s \in open, v \in SocketIds \cup {NoSocket} :
     BroadcasterIceCandidate(s, v, [pc |-> 0, n |-> 1], EmptyInbox) /\ UNCHANGED netVars /\ UNCHANGED pageVars
RawViewerIceCandidate ==
  \E s \in open : ViewerIceCandidate(s, [pc |-> 0, n |-> 1], EmptyInbox) /\ UNCHANGED netVars /\ UNCHANGED pageVars
RawDisconnect ==
  \E s \in open :
     /\ open' = open \ {s}
     /\ UNCHANGED <<sockKind, nextSock>>
     /\ UNCHANGED pageVars
     /\ Disconnect(s, open \ {s}, EmptyInbox)

\* ------------------------------------------------------------------ pages
NoPc == 0                           \* JS null / undefined RTCPeerConnection
NoTrack == 0                        \* no track
FullTrack == 1                      \* the video track of the captured screen
NoCanvas == << >>                   \* JS undefined canvas

NoEvent ==
  [type |-> "none", socket |-> NoSocket, clientId |-> "", arg |-> << >>, prev |-> NoSocket]

\* the clientId in the URL of a viewer page
ClientIdOf(v) == IF v = "v1" THEN "wall-a" ELSE "wall-b"

Up(p) == page[p].state = "up"       \* socket.connected and the connect event handled
Sock(p) == page[p].sock

Pop(s) == [inbox EXCEPT ![s] = Tail(@)]

\* React has committed every update of the connections state and run the effect
\* that copies it into connectionsRef. A render that is pending runs before any
\* party takes another step, except that the admin page may first handle
\* messages its socket has already been delivered.
Rendered == \A a \in Admins : admin[a].connectionsRef = admin[a].connections

\* new RTCPeerConnection(...)
NewPc(owner, peer) ==
  [owner |-> owner, peer |-> peer, closed |-> FALSE, signalingState |-> "stable",
   localDescription |-> NoPc, remoteDescription |-> NoPc, sender |-> NoTrack,
   applied |-> 0, gathered |-> 0, ice |-> "new"]

\* pc.close() on each of the peer connections in ids
Close(ps, ids) ==
  [i \in 1..Len(ps) |->
     IF i \in ids THEN [ps[i] EXCEPT !.closed = TRUE, !.signalingState = "closed"] ELSE ps[i]]

\* io(): the socket.io client connects, for the first time or after a drop; the
\* hub gives every connection a new socket id
PageConnect(p) ==
  /\ Rendered
  /\ p \in budget.pages
  /\ page[p].state \in {"closed", "down"}
  /\ nextSock <= MaxSockets
  /\ page' = [page EXCEPT ![p].state = "opened", ![p].sock = nextSock]
  /\ nextSock' = nextSock + 1
  /\ open' = open \cup {nextSock}
  /\ sockKind' = [sockKind EXCEPT ![nextSock] = IF p \in Admins THEN "admin" ELSE "viewer"]
  /\ lastEvent' = Event("connection", nextSock, "")
  /\ UNCHANGED <<inbox, hubVars, admin, viewer, pcs, media, budget>>

\* the page loses its transport; what the hub had emitted to it is lost
SocketDrop(p) ==
  /\ Rendered
  /\ page[p].state \in {"opened", "up"}
  /\ budget.drops > 0
  /\ budget' = [budget EXCEPT !.drops = @ - 1]
  /\ page' = [page EXCEPT ![p].state = "down"]
  /\ sockKind' = [sockKind EXCEPT ![Sock(p)] = "none"]
  /\ inbox' = [inbox EXCEPT ![Sock(p)] = << >>]
  /\ lastEvent' = NoEvent
  /\ UNCHANGED <<hubVars, open, nextSock, admin, viewer, pcs, media>>

\* the hub notices that a transport is gone: socket.on('disconnect')
HubDisconnect ==
  /\ Rendered
  /\ \E s \in open :
     /\ sockKind[s] = "none"
     /\ open' = open \ {s}
     /\ Disconnect(s, open \ {s}, inbox)
     /\ UNCHANGED <<sockKind, nextSock, pageVars>>

\* ----------------------------------------------- viewer page (ClientView)
\* socket.emit('register-as-viewer', config): the whole config object is the payload
ViewerPayload(cfg) == [clientId |-> cfg.clientId, region |-> cfg.region]

\* setClientConfig(cfg) and the render it causes: the useViewer effects depend on
\* [socket, config], so the cleanup of the previous run (close the peer connection,
\* reset hasRegistered, drop the pending candidates) and a new setup (new peer
\* connection, registerAsViewer) run
SetClientConfig(v, cfg, ib) ==
  LET id == Len(pcs) + 1
  IN /\ Len(pcs) < MaxPcs
     /\ pcs' = Append(Close(pcs, {viewer[v].pc}), NewPc(v, NoSocket))
     /\ viewer' = [viewer EXCEPT ![v].clientConfig = cfg, ![v].pc = id,
                                 ![v].hasRegistered = TRUE,
                                 ![v].pendingIceCandidates = << >>]
     /\ RegisterAsViewer(Sock(v), ViewerPayload(cfg), ib)

\* the connect event of the viewer's socket: at the first connection ClientView
\* asks for its config; at a later one the connect listener of useViewer, if the
\* effect is mounted, registers again with the config it has
ViewerOnConnect(v) ==
  /\ Rendered
  /\ v \in Viewers
  /\ page[v].state = "opened"
  /\ page' = [page EXCEPT ![v].state = "up", ![v].mounted = TRUE]
  /\ UNCHANGED <<netVars, admin, pcs, media, budget>>
  /\ IF ~page[v].mounted
     THEN /\ GetClientConfig(Sock(v), ClientIdOf(v), inbox)
          /\ UNCHANGED viewer
     ELSE IF viewer[v].clientConfig # NoConfig
          THEN /\ viewer' = [viewer EXCEPT ![v].hasRegistered = TRUE]
               /\ RegisterAsViewer(Sock(v), ViewerPayload(viewer[v].clientConfig), inbox)
          ELSE /\ lastEvent' = NoEvent
               /\ UNCHANGED <<hubVars, inbox, viewer>>

\* socket.on('client-config')
ReceiveClientConfig(v) ==
  /\ Rendered
  /\ v \in Viewers /\ Up(v)
  /\ inbox[Sock(v)] # << >>
  /\ Head(inbox[Sock(v)]).type = "client-config"
  /\ SetClientConfig(v, Head(inbox[Sock(v)]).config, Pop(Sock(v)))
  /\ UNCHANGED <<netVars, page, admin, media, budget>>

\* socket.on('region-update')
ReceiveRegionUpdate(v) ==
  /\ Rendered
  /\ v \in Viewers /\ Up(v)
  /\ inbox[Sock(v)] # << >>
  /\ LET m == Head(inbox[Sock(v)])
         prevConfig == viewer[v].clientConfig
     IN /\ m.type = "region-update"
        /\ IF prevConfig # NoConfig /\ prevConfig.clientId = m.clientId
           THEN SetClientConfig(v, [prevConfig EXCEPT !.region = m.region], Pop(Sock(v)))
           ELSE /\ inbox' = Pop(Sock(v))
                /\ lastEvent' = NoEvent
                /\ UNCHANGED <<hubVars, viewer, pcs>>
  /\ UNCHANGED <<netVars, page, admin, media, budget>>

\* socket.on('region-update') of the ClientView that limits the rate: an update
\* that comes less than 100 ms after the last one it took is skipped; the clock
\* is not modelled, whether 100 ms have passed is open. lastRegionUpdateTime is
\* 0 until the first update is taken, so the first one is always taken.
ReceiveRegionUpdateRateLimited(v) ==
  /\ Rendered
  /\ v \in Viewers /\ Up(v)
  /\ inbox[Sock(v)] # << >>
  /\ LET m == Head(inbox[Sock(v)])
         prevConfig == viewer[v].clientConfig
     IN /\ m.type = "region-update"
        /\ \/ /\ page[v].lastRegionUpdateTime # 0
              /\ inbox' = Pop(Sock(v))
              /\ lastEvent' = NoEvent
              /\ UNCHANGED <<hubVars, viewer, pcs, page>>
           \/ /\ page' = [page EXCEPT ![v].lastRegionUpdateTime = 1]
              /\ IF prevConfig # NoConfig /\ prevConfig.clientId = m.clientId
                 THEN SetClientConfig(v, [prevConfig EXCEPT !.region = m.region], Pop(Sock(v)))
                 ELSE /\ inbox' = Pop(Sock(v))
                      /\ lastEvent' = NoEvent
                      /\ UNCHANGED <<hubVars, viewer, pcs>>
  /\ UNCHANGED <<netVars, admin, media, budget>>

\* ----------------------------------------- admin page (useBroadcaster)
\* the ConnectionData handleNewViewer stores
Entry(pc, canvas, track, region) ==
  [connection |-> pc, pendingCandidates |-> << >>, state |-> "new",
   canvas |-> canvas, canvasStream |-> track, region |-> region]

\* { ...prev[viewerId], ... } when prev[viewerId] is undefined: every field undefined
Undefined ==
  [connection |-> NoPc, pendingCandidates |-> << >>, state |-> "",
   canvas |-> NoCanvas, canvasStream |-> NoTrack, region |-> NoRegion]

Prev(conns, vid) == IF vid \in DOMAIN conns THEN conns[vid] ELSE Undefined
Put(conns, vid, e) == [k \in DOMAIN conns \cup {vid} |-> IF k = vid THEN e ELSE conns[k]]
Delete(conns, vid) == [k \in DOMAIN conns \ {vid} |-> conns[k]]

XYWH(r) == [x |-> r.x, y |-> r.y, width |-> r.width, height |-> r.height]
Canvas(r) == [width |-> r.width, height |-> r.height]

\* canvas.width = width; canvas.height = height on the canvas object of an entry
Resize(conns, vid, cv) ==
  IF vid \in DOMAIN conns /\ conns[vid].canvas # NoCanvas
  THEN [conns EXCEPT ![vid].canvas = cv] ELSE conns

\* the state a handler of the hook works on: clientConfigsRef, the connections
\* state, connectionsRef.current, the peer connections, the tracks, and whether a
\* TypeError has ended the handler
Hook(a) ==
  [cfgs |-> admin[a].clientConfigsRef, conns |-> admin[a].connections,
   ref |-> admin[a].connectionsRef, pcs |-> pcs, media |-> media, thrown |-> FALSE]

\* updateClientStream(viewerId, width, height)
UpdateClientStream(B, ms, vid, w, h) ==
  IF vid \notin DOMAIN B.ref \/ ~ms THEN B
  ELSE LET cd == B.ref[vid]
           stopped == IF cd.canvasStream # NoTrack
                      THEN B.media.stopped \cup {cd.canvasStream} ELSE B.media.stopped
           track == B.media.nextTrack
           pc == cd.connection
       IN IF pc = NoPc
          THEN [B EXCEPT !.media.stopped = stopped, !.media.nextTrack = track + 1,
                         !.ref = Resize(B.ref, vid, [width |-> w, height |-> h]),
                         !.conns = Resize(B.conns, vid, [width |-> w, height |-> h]),
                         !.thrown = TRUE]
          ELSE [B EXCEPT !.media.stopped = stopped, !.media.nextTrack = track + 1,
                         !.ref = Resize(B.ref, vid, [width |-> w, height |-> h]),
                         !.pcs = IF B.pcs[pc].sender # NoTrack /\ ~B.pcs[pc].closed
                                 THEN [B.pcs EXCEPT ![pc].sender = track] ELSE B.pcs,
                         !.conns = Put(Resize(B.conns, vid, [width |-> w, height |-> h]), vid,
                                       [Prev(B.conns, vid) EXCEPT
                                          !.canvas = [width |-> w, height |-> h],
                                          !.canvasStream = track])]

\* updateRegionForClient(viewerId, region)
UpdateRegionForClient(B, ms, vid, region) ==
  IF vid \notin DOMAIN B.ref THEN B
  ELSE LET cd == B.ref[vid]
           needsNewCanvas == \/ cd.canvas = NoCanvas
                             \/ cd.canvas.width # region.width
                             \/ cd.canvas.height # region.height
           B1 == [B EXCEPT !.conns = Put(B.conns, vid,
                                         [Prev(B.conns, vid) EXCEPT !.region = XYWH(region)])]
       IN IF needsNewCanvas /\ ms
          THEN UpdateClientStream(B1, ms, vid, region.width, region.height)
          ELSE B1

\* the elements of a set of socket ids in ascending order
RECURSIVE Ascending(_)
Ascending(S) ==
  IF S = {} THEN << >>
  ELSE LET m == CHOOSE x \in S : \A y \in S : x <= y
       IN <<m>> \o Ascending(S \ {m})

\* Object.entries(connectionsRef.current).forEach of handleClientsUpdate, for one client
RECURSIVE OverEntries(_, _, _, _)
OverEntries(B, ms, client, vids) ==
  IF vids = << >> \/ B.thrown THEN B
  ELSE LET vid == Head(vids)
           cd == B.ref[vid]
           B1 == IF cd.connection = NoPc THEN [B EXCEPT !.thrown = TRUE]
                 ELSE IF /\ client.socketId = vid
                         /\ client.region # NoRegion /\ cd.region # NoRegion
                         /\ XYWH(client.region) # cd.region
                      THEN UpdateRegionForClient(B, ms, vid, client.region)
                      ELSE B
       IN OverEntries(B1, ms, client, Tail(vids))

\* clients.forEach of handleClientsUpdate
RECURSIVE OverClients(_, _, _)
OverClients(B, ms, cls) ==
  IF cls = << >> \/ B.thrown THEN B
  ELSE LET client == Head(cls)
           B1 == [B EXCEPT !.cfgs = Put(B.cfgs, client.clientId, client)]
       IN OverClients(OverEntries(B1, ms, client, Ascending(DOMAIN B.ref)), ms, Tail(cls))

\* what a handler of the hook leaves behind
Commit(a, B) ==
  /\ admin' = [admin EXCEPT ![a].clientConfigsRef = B.cfgs, ![a].connections = B.conns,
                            ![a].connectionsRef = B.ref]
  /\ pcs' = B.pcs
  /\ media' = B.media

Receives(p, type) ==
  /\ Up(p)
  /\ inbox[Sock(p)] # << >>
  /\ Head(inbox[Sock(p)]).type = type

\* no hub handler runs in the step; the message handled is taken from the inbox
Handled(p) ==
  /\ inbox' = Pop(Sock(p))
  /\ lastEvent' = NoEvent
  /\ UNCHANGED hubVars

\* socket.on('clients-update', handleClientsUpdate)
HandleClientsUpdate(a) ==
  /\ a \in Admins /\ Receives(a, "clients-update")
  /\ Commit(a, OverClients(Hook(a), admin[a].mediaStream, Head(inbox[Sock(a)]).clients))
  /\ Handled(a)
  /\ UNCHANGED <<netVars, page, viewer, budget>>

\* the effect that copies the connections state into connectionsRef after a render
AdminRender(a) ==
  /\ a \in Admins
  /\ admin[a].connectionsRef # admin[a].connections
  /\ admin' = [admin EXCEPT ![a].connectionsRef = admin[a].connections]
  /\ lastEvent' = NoEvent
  /\ UNCHANGED <<hubVars, netVars, inbox, page, viewer, pcs, media, budget>>

\* the connect event of the admin's socket, at the first connection and after a
\* drop: registerAsBroadcaster
AdminOnConnect(a) ==
  /\ Rendered
  /\ a \in Admins
  /\ page[a].state = "opened"
  /\ page' = [page EXCEPT ![a].state = "up", ![a].mounted = TRUE]
  /\ admin' = [admin EXCEPT ![a].isRegistered = TRUE]
  /\ RegisterAsBroadcaster(Sock(a), inbox)
  /\ UNCHANGED <<netVars, viewer, pcs, media, budget>>

\* socket.emit("get-clients") of the admin page, once per mount
AdminGetClients(a) ==
  /\ Rendered
  /\ a \in Admins /\ Up(a)
  /\ ~admin[a].askedClients
  /\ admin' = [admin EXCEPT ![a].askedClients = TRUE]
  /\ GetClients(Sock(a), inbox)
  /\ UNCHANGED <<netVars, page, viewer, pcs, media, budget>>

\* the admin moves or resizes a client's box: updateClientConfig(clientId, {region})
AdminUpdate(a) ==
  /\ Rendered
  /\ a \in Admins /\ Up(a)
  /\ budget.updates > 0
  /\ \E c \in DOMAIN admin[a].clientConfigsRef, r \in budget.regions :
        /\ budget' = [budget EXCEPT !.updates = @ - 1,
                                    !.sent = [clientId |-> c, region |-> r]]
        /\ UpdateClientConfig(Sock(a), c, [region |-> r], inbox)
  /\ UNCHANGED <<netVars, page, admin, viewer, pcs, media>>

\* the same against the hub whose handler sends region-update to the viewer
AdminUpdateV2(a) ==
  /\ Rendered
  /\ a \in Admins /\ Up(a)
  /\ budget.updates > 0
  /\ \E c \in DOMAIN admin[a].clientConfigsRef, r \in budget.regions :
        /\ budget' = [budget EXCEPT !.updates = @ - 1,
                                    !.sent = [clientId |-> c, region |-> r]]
        /\ UpdateClientConfigV2(Sock(a), c, [region |-> r], inbox)
  /\ UNCHANGED <<netVars, page, admin, viewer, pcs, media>>

\* setMediaStream(stream): the admin starts the screen capture
SetMediaStream(a) ==
  /\ Rendered
  /\ a \in Admins /\ page[a].mounted
  /\ ~admin[a].mediaStream
  /\ admin' = [admin EXCEPT ![a].mediaStream = TRUE]
  /\ lastEvent' = NoEvent
  /\ UNCHANGED <<hubVars, netVars, inbox, page, viewer, pcs, media, budget>>

\* Object.values(clientConfigsRef.current).find(config => config.socketId === viewerId)
FindConfig(cfgs, vid) ==
  LET M == {c \in DOMAIN cfgs : cfgs[c].socketId = vid}
  IN IF M = {} THEN NoConfig ELSE cfgs[CHOOSE c \in M : TRUE]

\* connectionsRef.current[viewerId] of handleNewViewer
Exists(ref, vid) == vid \in DOMAIN ref

\* socket.on('new-viewer', handleNewViewer), up to the await of createOffer
HandleNewViewer(a) ==
  /\ a \in Admins /\ Receives(a, "new-viewer")
  /\ Handled(a)
  /\ UNCHANGED <<netVars, page, viewer, budget>>
  /\ LET vid == Head(inbox[Sock(a)]).viewerId
         id == Len(pcs) + 1
         clientConfig == FindConfig(admin[a].clientConfigsRef, vid)
         region == IF clientConfig = NoConfig THEN NoRegion ELSE clientConfig.region
         cropped == region # NoRegion /\ admin[a].mediaStream
         track == IF cropped THEN media.nextTrack
                  ELSE IF admin[a].mediaStream THEN FullTrack ELSE NoTrack
     IN IF Exists(admin[a].connectionsRef, vid)
        THEN UNCHANGED <<admin, pcs, media>>
        ELSE /\ Len(pcs) < MaxPcs
             /\ pcs' = Append(pcs, [NewPc(a, vid) EXCEPT !.sender = track])
             /\ media' = IF cropped THEN [media EXCEPT !.nextTrack = @ + 1] ELSE media
             /\ admin' = [admin EXCEPT
                  ![a].connections =
                     Put(@, vid, Entry(id, IF cropped THEN Canvas(region) ELSE NoCanvas,
                                       IF cropped THEN track ELSE NoTrack,
                                       IF region # NoRegion THEN XYWH(region) ELSE NoRegion)),
                  ![a].awaiting = @ \cup {[kind |-> "offer", viewerId |-> vid, pc |-> id,
                                           answer |-> NoPc, pending |-> << >>]}]

Connected(p) == page[p].state \in {"opened", "up"}      \* socket.connected

\* handleNewViewer after createOffer: setLocalDescription, state 'offering', the
\* offer is emitted if the socket is connected. createOffer on a closed peer
\* connection throws and the catch block ends the handler.
NewViewerOffer(a) ==
  /\ Rendered
  /\ a \in Admins
  /\ \E k \in admin[a].awaiting :
        /\ k.kind = "offer"
        /\ IF pcs[k.pc].closed
           THEN /\ admin' = [admin EXCEPT ![a].awaiting = @ \ {k}]
                /\ lastEvent' = NoEvent
                /\ UNCHANGED <<hubVars, inbox, pcs>>
           ELSE /\ pcs' = [pcs EXCEPT ![k.pc].localDescription = k.pc,
                                      ![k.pc].signalingState = "have-local-offer"]
                /\ admin' = [admin EXCEPT
                     ![a].awaiting = @ \ {k},
                     ![a].connections =
                        Put(@, k.viewerId, [Prev(@, k.viewerId) EXCEPT !.state = "offering"])]
                /\ IF Connected(a)
                   THEN BroadcasterOffer(Sock(a), k.viewerId, [pc |-> k.pc], inbox)
                   ELSE /\ lastEvent' = NoEvent
                        /\ UNCHANGED <<hubVars, inbox>>
  /\ UNCHANGED <<netVars, page, viewer, media, budget>>

\* a hook that applies an answer whatever the signaling state of the session
HandleViewerAnswerAnyState(a) ==
  /\ a \in Admins /\ Receives(a, "viewer-answer")
  /\ Handled(a)
  /\ UNCHANGED <<netVars, page, viewer, pcs, media, budget>>
  /\ LET m == Head(inbox[Sock(a)])
         ref == admin[a].connectionsRef
     IN IF /\ m.viewerId \in DOMAIN ref
           /\ ref[m.viewerId].connection # NoPc
        THEN admin' = [admin EXCEPT ![a].awaiting = @ \cup
                         {[kind |-> "answer", viewerId |-> m.viewerId,
                           pc |-> ref[m.viewerId].connection, answer |-> m.answer.pc,
                           pending |-> ref[m.viewerId].pendingCandidates]}]
        ELSE UNCHANGED admin

\* socket.on('viewer-answer', handleViewerAnswer), up to the await of
\* setRemoteDescription
HandleViewerAnswer(a) ==
  /\ a \in Admins /\ Receives(a, "viewer-answer")
  /\ Handled(a)
  /\ UNCHANGED <<netVars, page, viewer, pcs, media, budget>>
  /\ LET m == Head(inbox[Sock(a)])
         ref == admin[a].connectionsRef
     IN IF /\ m.viewerId \in DOMAIN ref
           /\ ref[m.viewerId].connection # NoPc
           /\ ~pcs[ref[m.viewerId].connection].closed
           /\ pcs[ref[m.viewerId].connection].signalingState = "have-local-offer"
        THEN admin' = [admin EXCEPT ![a].awaiting = @ \cup
                         {[kind |-> "answer", viewerId |-> m.viewerId,
                           pc |-> ref[m.viewerId].connection, answer |-> m.answer.pc,
                           pending |-> ref[m.viewerId].pendingCandidates]}]
        ELSE UNCHANGED admin

\* handleViewerAnswer after setRemoteDescription: the candidates that were pending
\* when the handler started are added, state 'connected', pendingCandidates []
ViewerAnswerDone(a) ==
  /\ Rendered
  /\ a \in Admins
  /\ \E k \in admin[a].awaiting :
        /\ k.kind = "answer"
        /\ IF pcs[k.pc].signalingState # "have-local-offer"
           THEN /\ admin' = [admin EXCEPT ![a].awaiting = @ \ {k}]
                /\ UNCHANGED pcs
           ELSE /\ pcs' = [pcs EXCEPT ![k.pc].remoteDescription = k.answer,
                                      ![k.pc].signalingState = "stable",
                                      ![k.pc].applied = @ + Len(k.pending)]
                /\ admin' = [admin EXCEPT
                     ![a].awaiting = @ \ {k},
                     ![a].connections =
                        Put(@, k.viewerId, [Prev(@, k.viewerId) EXCEPT
                                              !.state = "connected",
                                              !.pendingCandidates = << >>])]
  /\ lastEvent' = NoEvent
  /\ UNCHANGED <<hubVars, netVars, inbox, page, viewer, media, budget>>

\* socket.on('viewer-ice-candidate', handleViewerIceCandidate)
HandleViewerIceCandidate(a) ==
  /\ a \in Admins /\ Receives(a, "viewer-ice-candidate")
  /\ Handled(a)
  /\ UNCHANGED <<netVars, page, viewer, media, budget>>
  /\ LET m == Head(inbox[Sock(a)])
         vid == m.viewerId
         ref == admin[a].connectionsRef
         pc == IF vid \in DOMAIN ref THEN ref[vid].connection ELSE NoPc
     IN IF pc = NoPc \/ pcs[pc].closed
        THEN UNCHANGED <<admin, pcs>>
        ELSE IF pcs[pc].remoteDescription # NoPc
             THEN /\ pcs' = [pcs EXCEPT ![pc].applied = @ + 1]
                  /\ UNCHANGED admin
             ELSE /\ UNCHANGED pcs
                  /\ admin' = [admin EXCEPT ![a].connections =
                        IF vid \notin DOMAIN @ THEN @
                        ELSE [@ EXCEPT ![vid].pendingCandidates = Append(@, m.candidate)]]

\* socket.on('viewer-disconnect', handleViewerDisconnect)
HandleViewerDisconnect(a) ==
  /\ a \in Admins /\ Receives(a, "viewer-disconnect")
  /\ Handled(a)
  /\ UNCHANGED <<netVars, page, viewer, budget>>
  /\ LET vid == Head(inbox[Sock(a)]).viewerId
         ref == admin[a].connectionsRef
     IN IF vid \in DOMAIN ref
        THEN /\ media' = IF ref[vid].canvasStream # NoTrack
                         THEN [media EXCEPT !.stopped = @ \cup {ref[vid].canvasStream}]
                         ELSE media
             /\ pcs' = Close(pcs, {ref[vid].connection})
             /\ admin' = [admin EXCEPT ![a].connections = Delete(@, vid)]
        ELSE UNCHANGED <<admin, pcs, media>>

\* a hook that closes the failed peer connection and keeps its entry
BroadcasterIceFailedKeepsEntry(a) ==
  /\ Rendered
  /\ a \in Admins
  /\ budget.fails > 0
  /\ budget' = [budget EXCEPT !.fails = @ - 1]
  /\ \E id \in 1..Len(pcs) :
        /\ pcs[id].owner = a /\ ~pcs[id].closed /\ pcs[id].remoteDescription # NoPc
        /\ pcs' = Close([pcs EXCEPT ![id].ice = "failed"], {id})
        /\ UNCHANGED admin
  /\ lastEvent' = NoEvent
  /\ UNCHANGED <<hubVars, netVars, inbox, page, viewer, media>>

\* peerConnection.oniceconnectionstatechange of the broadcaster with 'failed':
\* the peer connection is closed and the entry of its viewerId deleted. The ICE
\* agent checks connectivity, and so can fail, once the answer is applied.
BroadcasterIceFailed(a) ==
  /\ Rendered
  /\ a \in Admins
  /\ budget.fails > 0
  /\ budget' = [budget EXCEPT !.fails = @ - 1]
  /\ \E id \in 1..Len(pcs) :
        /\ pcs[id].owner = a /\ ~pcs[id].closed /\ pcs[id].remoteDescription # NoPc
        /\ pcs' = Close([pcs EXCEPT ![id].ice = "failed"], {id})
        /\ admin' = [admin EXCEPT ![a].connections = Delete(@, pcs[id].peer)]
  /\ lastEvent' = NoEvent
  /\ UNCHANGED <<hubVars, netVars, inbox, page, viewer, media>>

\* ------------------------------------------------- viewer hook (useViewer)
\* socket.on('broadcaster-offer', handleBroadcasterOffer), up to the first await
HandleBroadcasterOffer(v) ==
  /\ Rendered
  /\ v \in Viewers /\ Receives(v, "broadcaster-offer")
  /\ viewer[v].clientConfig # NoConfig
  /\ Handled(v)
  /\ viewer' = [viewer EXCEPT ![v].awaiting = @ \cup
                  {[pc |-> viewer[v].pc, offer |-> Head(inbox[Sock(v)]).offer.pc]}]
  /\ UNCHANGED <<netVars, page, admin, pcs, media, budget>>

\* handleBroadcasterOffer after its awaits: the offer is the remote description,
\* the pending candidates are added and dropped, the answer is the local
\* description and is emitted if the socket is connected. On a peer connection
\* closed by the effect cleanup setRemoteDescription throws.
BroadcasterOfferDone(v) ==
  /\ Rendered
  /\ v \in Viewers
  /\ \E k \in viewer[v].awaiting :
        IF pcs[k.pc].closed
        THEN /\ viewer' = [viewer EXCEPT ![v].awaiting = @ \ {k}]
             /\ lastEvent' = NoEvent
             /\ UNCHANGED <<hubVars, inbox, pcs>>
        ELSE /\ pcs' = [pcs EXCEPT ![k.pc].remoteDescription = k.offer,
                                   ![k.pc].localDescription = k.pc,
                                   ![k.pc].signalingState = "stable",
                                   ![k.pc].applied = @ + Len(viewer[v].pendingIceCandidates)]
             /\ viewer' = [viewer EXCEPT ![v].awaiting = @ \ {k},
                                         ![v].pendingIceCandidates = << >>]
             /\ IF Connected(v)
                THEN ViewerAnswer(Sock(v), [pc |-> k.pc], inbox)
                ELSE /\ lastEvent' = NoEvent
                     /\ UNCHANGED <<hubVars, inbox>>
  /\ UNCHANGED <<netVars, page, admin, media, budget>>

\* socket.on('broadcaster-ice-candidate', handleBroadcasterIceCandidate)
HandleBroadcasterIceCandidate(v) ==
  /\ Rendered
  /\ v \in Viewers /\ Receives(v, "broadcaster-ice-candidate")
  /\ viewer[v].clientConfig # NoConfig
  /\ Handled(v)
  /\ LET pc == viewer[v].pc
     IN IF pcs[pc].closed
        THEN UNCHANGED <<viewer, pcs>>
        ELSE IF pcs[pc].remoteDescription # NoPc
             THEN /\ pcs' = [pcs EXCEPT ![pc].applied = @ + 1]
                  /\ UNCHANGED viewer
             ELSE /\ viewer' = [viewer EXCEPT ![v].pendingIceCandidates =
                                   Append(@, Head(inbox[Sock(v)]).candidate)]
                  /\ UNCHANGED pcs
  /\ UNCHANGED <<netVars, page, admin, media, budget>>

\* --------------------------------------------------------------- ICE agent
\* both ends hold each other's description: the ICE connection is established;
\* pc.oniceconnectionstatechange of the viewer with 'connected' sets Connected
IceConnected ==
  /\ Rendered
  /\ \E i, j \in 1..Len(pcs) :
     /\ pcs[i].owner \in Admins /\ pcs[j].owner \in Viewers
     /\ ~pcs[i].closed /\ ~pcs[j].closed
     /\ pcs[i].remoteDescription = j /\ pcs[j].remoteDescription = i
     /\ pcs[i].ice = "new" /\ pcs[j].ice = "new"
     /\ pcs' = [pcs EXCEPT ![i].ice = "connected", ![j].ice = "connected"]
     /\ viewer' = [viewer EXCEPT ![pcs[j].owner].connected = TRUE]
     /\ lastEvent' = NoEvent
     /\ UNCHANGED <<hubVars, netVars, inbox, page, admin, media, budget>>

\* pc.oniceconnectionstatechange of the viewer with 'failed': Connected is reset
\* and, after the timeout, the viewer registers again if hasRegistered is false
ViewerIceFailed(v) ==
  /\ Rendered
  /\ v \in Viewers
  /\ budget.fails > 0
  /\ budget' = [budget EXCEPT !.fails = @ - 1]
  /\ viewer[v].pc # NoPc
  /\ ~pcs[viewer[v].pc].closed /\ pcs[viewer[v].pc].localDescription # NoPc
  /\ pcs[viewer[v].pc].ice # "failed"
  /\ pcs' = [pcs EXCEPT ![viewer[v].pc].ice = "failed"]
  /\ IF Connected(v) /\ ~viewer[v].hasRegistered
     THEN /\ viewer' = [viewer EXCEPT ![v].connected = FALSE, ![v].hasRegistered = TRUE]
          /\ RegisterAsViewer(Sock(v), ViewerPayload(viewer[v].clientConfig), inbox)
     ELSE /\ viewer' = [viewer EXCEPT ![v].connected = FALSE]
          /\ lastEvent' = NoEvent
          /\ UNCHANGED <<hubVars, inbox>>
  /\ UNCHANGED <<netVars, page, admin, media>>

\* a candidate is in flight to socket s. ICE candidates trickle: the ICE agent
\* gathers the next one when the one before has been delivered.
InFlight(s, type) == \E i \in DOMAIN inbox[s] : inbox[s][i].type = type

\* peerConnection.onicecandidate of the broadcaster
BroadcasterIceGather(a) ==
  /\ Rendered
  /\ a \in Admins
  /\ \E id \in 1..Len(pcs) :
        /\ pcs[id].owner = a /\ ~pcs[id].closed /\ pcs[id].localDescription # NoPc
        /\ pcs[id].gathered < budget.ice
        /\ ~InFlight(pcs[id].peer, "broadcaster-ice-candidate")
        /\ pcs' = [pcs EXCEPT ![id].gathered = @ + 1]
        /\ IF Connected(a)
           THEN BroadcasterIceCandidate(Sock(a), pcs[id].peer,
                                        [pc |-> id, n |-> pcs[id].gathered + 1], inbox)
           ELSE /\ lastEvent' = NoEvent
                /\ UNCHANGED <<hubVars, inbox>>
  /\ UNCHANGED <<netVars, page, admin, viewer, media, budget>>

\* pc.onicecandidate of the viewer
ViewerIceGather(v) ==
  /\ Rendered
  /\ v \in Viewers
  /\ viewer[v].pc # NoPc
  /\ LET id == viewer[v].pc
     IN /\ ~pcs[id].closed /\ pcs[id].localDescription # NoPc
        /\ pcs[id].gathered < budget.viewerIce
        /\ \A s \in SocketIds : ~InFlight(s, "viewer-ice-candidate")
        /\ pcs' = [pcs EXCEPT ![id].gathered = @ + 1]
        /\ IF Connected(v)
           THEN ViewerIceCandidate(Sock(v), [pc |-> id, n |-> pcs[id].gathered + 1], inbox)
           ELSE /\ lastEvent' = NoEvent
                /\ UNCHANGED <<hubVars, inbox>>
  /\ UNCHANGED <<netVars, page, admin, viewer, media, budget>>

\* ------------------------------------------------------------------- runs
\* no update-client-config sent by an admin yet
NothingSent == << >>

NoBudget == [pages |-> {}, updates |-> 0, fails |-> 0, drops |-> 0, ice |-> 0, viewerIce |-> 0,
   regions |-> {}, sent |-> NothingSent]

InitHub ==
  /\ clients = << >>
  /\ clientKeys = << >>
  /\ broadcaster = NoSocket
  /\ open = {}
  /\ sockKind = [s \in SocketIds |-> "none"]
  /\ nextSock = 1
  /\ inbox = EmptyInbox
  /\ lastEvent = NoEvent

InitPages ==
  /\ page = [p \in Pages |-> [state |-> "closed", sock |-> NoSocket, mounted |-> FALSE,
                          lastRegionUpdateTime |-> 0]]
  /\ admin = [a \in Admins |->
                [isRegistered |-> FALSE, mediaStream |-> FALSE, askedClients |-> FALSE,
                 clientConfigsRef |-> << >>, connections |-> << >>,
                 connectionsRef |-> << >>, awaiting |-> {}]]
  /\ viewer = [v \in Viewers |->
                 [clientConfig |-> NoConfig, pc |-> NoPc, hasRegistered |-> FALSE,
                  pendingIceCandidates |-> << >>, connected |-> FALSE, awaiting |-> {}]]
  /\ pcs = << >>
  /\ media = [nextTrack |-> FullTrack + 1, stopped |-> {}]

\* the hub alone, driven by sockets that send any event in any order
InitRaw == InitHub /\ InitPages /\ budget = NoBudget

NextHub ==
  \/ RawConnect
  \/ RawRegisterAsBroadcaster
  \/ RawRegisterAsViewer
  \/ RawGetClientConfig
  \/ RawGetClients
  \/ RawUpdateClientConfig
  \/ RawBroadcasterOffer
  \/ RawViewerAnswer
  \/ RawBroadcasterIceCandidate
  \/ RawViewerIceCandidate
  \/ RawDisconnect

SpecHub == InitRaw /\ [][NextHub]_vars

\* one admin page and one viewer page against the hub, no transport is lost and
\* no ICE connection fails; the admin may capture its screen and move the
\* viewer's box
Budget ==
  [pages |-> {"a1", "v1"}, updates |-> MaxUpdates, fails |-> 0, drops |-> 0, ice |-> 0,
   viewerIce |-> 0, regions |-> {RegionA, RegionD}, sent |-> NothingSent]

Init == InitHub /\ InitPages /\ budget = Budget

\* connecting, registering and negotiating
NextSession ==
  \/ \E p \in Pages : PageConnect(p)
  \/ \E v \in Viewers : ViewerOnConnect(v)
  \/ \E v \in Viewers : ReceiveClientConfig(v)
  \/ \E a \in Admins : AdminOnConnect(a)
  \/ \E a \in Admins : AdminGetClients(a)
  \/ \E a \in Admins : HandleClientsUpdate(a)
  \/ \E a \in Admins : AdminRender(a)
  \/ \E a \in Admins : HandleNewViewer(a)
  \/ \E a \in Admins : NewViewerOffer(a)
  \/ \E a \in Admins : HandleViewerAnswer(a)
  \/ \E a \in Admins : ViewerAnswerDone(a)
  \/ \E v \in Viewers : HandleBroadcasterOffer(v)
  \/ \E v \in Viewers : BroadcasterOfferDone(v)
  \/ IceConnected

Next ==
  \/ NextSession
  \/ \E a \in Admins : SetMediaStream(a)
  \/ \E a \in Admins : AdminUpdate(a)

Spec == Init /\ [][Next]_vars

\* the same pages when the network may drop a transport, which then reconnects,
\* and an ICE connection may fail
FaultBudget ==
  [pages |-> {"a1", "v1"}, updates |-> 0, fails |-> MaxFails, drops |-> MaxDrops, ice |-> 0,
   viewerIce |-> 0, regions |-> {}, sent |-> NothingSent]

InitFaults == InitHub /\ InitPages /\ budget = FaultBudget

NextFaults ==
  \/ NextSession
  \/ \E p \in Pages : SocketDrop(p)
  \/ HubDisconnect
  \/ \E a \in Admins : HandleViewerDisconnect(a)
  \/ \E a \in Admins : BroadcasterIceFailed(a)
  \/ \E v \in Viewers : ViewerIceFailed(v)

SpecFaults == InitFaults /\ [][NextFaults]_vars

\* no message is in flight or about to be sent, no handler is suspended on an
\* await, no render is pending, no transport is being connected, reconnected or
\* torn down
Quiescent ==
  /\ \A s \in SocketIds : inbox[s] = << >>
  /\ \A a \in Admins : admin[a].awaiting = {} /\ admin[a].connectionsRef = admin[a].connections
  /\ \A a \in Admins : page[a].mounted => admin[a].askedClients
  /\ \A v \in Viewers : viewer[v].awaiting = {}
  /\ \A p \in Pages : page[p].state \notin {"opened", "down"}
  /\ \A s \in open : sockKind[s] # "none"

\* the ViewerRecords with connected=true and a region set
ConnectedViewers == {c \in DOMAIN clients : clients[c].connected /\ clients[c].region # NoRegion}

\* the admin pages whose socket holds the broadcaster slot
Broadcasters == {a \in Admins : Connected(a) /\ Sock(a) = broadcaster}

\* the fault-free run against the hub whose update-client-config handler tells
\* the viewer: region-update for a region, client-config otherwise
NextV2 ==
  \/ NextSession
  \/ \E a \in Admins : SetMediaStream(a)
  \/ \E a \in Admins : AdminUpdateV2(a)
  \/ \E v \in Viewers : ReceiveRegionUpdate(v)

SpecV2 == Init /\ [][NextV2]_vars

\* the same run with the viewer page that limits the rate of region updates
NextThrottle ==
  \/ NextSession
  \/ \E a \in Admins : SetMediaStream(a)
  \/ \E a \in Admins : AdminUpdateV2(a)
  \/ \E v \in Viewers : ReceiveRegionUpdateRateLimited(v)

SpecThrottle == Init /\ [][NextThrottle]_vars

\* the fault-free run with ICE candidates: the viewer's ICE agent gathers many
IceBudget ==
  [pages |-> {"a1", "v1"}, updates |-> 0, fails |-> 0, drops |-> 0, ice |-> 0,
   viewerIce |-> IceFlood, regions |-> {}, sent |-> NothingSent]

InitIce == InitHub /\ InitPages /\ budget = IceBudget

NextIce ==
  \/ \E p \in Pages : PageConnect(p)
  \/ \E v \in Viewers : ViewerOnConnect(v)
  \/ \E v \in Viewers : ReceiveClientConfig(v)
  \/ \E a \in Admins : AdminOnConnect(a)
  \/ \E a \in Admins : HandleClientsUpdate(a)
  \/ \E a \in Admins : AdminRender(a)
  \/ \E a \in Admins : HandleNewViewer(a)
  \/ \E a \in Admins : NewViewerOffer(a)
  \/ \E a \in Admins : HandleViewerAnswer(a)
  \/ \E a \in Admins : ViewerAnswerDone(a)
  \/ \E v \in Viewers : HandleBroadcasterOffer(v)
  \/ \E v \in Viewers : BroadcasterOfferDone(v)
  \/ \E v \in Viewers : ViewerIceGather(v)
  \/ \E a \in Admins : HandleViewerIceCandidate(a)

SpecIce == InitIce /\ [][NextIce]_vars

\* the same pages when the transport of the admin page may drop and reconnect.
\* Every handler that can run does run, the hub notices a lost transport, and
\* socket.io reconnects; what the network drops is up to the network.
ReconnectBudget ==
  [pages |-> {"a1", "v1"}, updates |-> 0, fails |-> 0, drops |-> MaxDrops, ice |-> 0,
   viewerIce |-> 0, regions |-> {}, sent |-> NothingSent]

InitReconnect == InitHub /\ InitPages /\ budget = ReconnectBudget

NextReconnect ==
  \/ NextSession
  \/ \E a \in Admins : SocketDrop(a)
  \/ HubDisconnect

Fairness ==
  /\ \A p \in Pages : WF_vars(PageConnect(p))
  /\ WF_vars(HubDisconnect)
  /\ \A v \in Viewers :
        /\ WF_vars(ViewerOnConnect(v))
        /\ WF_vars(ReceiveClientConfig(v))
        /\ WF_vars(HandleBroadcasterOffer(v))
        /\ WF_vars(BroadcasterOfferDone(v))
  /\ \A a \in Admins :
        /\ WF_vars(AdminOnConnect(a))
        /\ WF_vars(AdminGetClients(a))
        /\ WF_vars(HandleClientsUpdate(a))
        /\ WF_vars(AdminRender(a))
        /\ WF_vars(HandleNewViewer(a))
        /\ WF_vars(NewViewerOffer(a))
        /\ WF_vars(HandleViewerAnswer(a))
        /\ WF_vars(ViewerAnswerDone(a))
  /\ WF_vars(IceConnected)

SpecReconnect == InitReconnect /\ [][NextReconnect]_vars /\ Fairness

\* the hub when sockets register, disconnect, and send get-client-config and
\* update-client-config without a clientId: the handler destructures undefined,
\* written "" here, and uses it as the key
RawGetClientConfigNoId ==
  \E s \in open : GetClientConfig(s, "", EmptyInbox) /\ UNCHANGED netVars /\ UNCHANGED pageVars
RawUpdateClientConfigNoId ==
  \E s \in open, config \in RawUpdates :
     UpdateClientConfig(s, "", config, EmptyInbox) /\ UNCHANGED netVars /\ UNCHANGED pageVars

NextMalformed ==
  \/ RawConnect
  \/ RawRegisterAsBroadcaster
  \/ RawRegisterAsViewer
  \/ RawGetClientConfigNoId
  \/ RawUpdateClientConfigNoId
  \/ RawDisconnect

SpecMalformed == InitRaw /\ [][NextMalformed]_vars

\* ------------------------------- the viewer's offer handler, await by await
\* handleBroadcasterOffer taken one await at a time, so that a second offer can
\* arrive while the first is half applied. The browser's rules: an offer can be
\* set as remote description in stable and in have-remote-offer; a rollback in
\* have-remote-offer discards the pending offer and is rejected in stable;
\* createAnswer needs a pending remote offer. prev is the remote description
\* the peer connection goes back to when the pending offer is rolled back.
\* a handler that applies the offer without looking at the signaling state
OfferArrivesNoRollback(v) ==
  /\ Rendered
  /\ v \in Viewers /\ Receives(v, "broadcaster-offer")
  /\ viewer[v].clientConfig # NoConfig
  /\ Handled(v)
  /\ LET unstable == pcs[viewer[v].pc].signalingState # "stable"
     IN viewer' = [viewer EXCEPT ![v].awaiting = @ \cup
                     {[pc |-> viewer[v].pc, offer |-> Head(inbox[Sock(v)]).offer.pc,
                       step |-> "remote",
                       unstable |-> unstable, rolled |-> FALSE, prev |-> NoPc]}]
  /\ UNCHANGED <<netVars, page, admin, pcs, media, budget>>

\* socket.on('broadcaster-offer'), up to the first await: the signaling state is
\* read and decides whether a rollback comes first
OfferArrives(v) ==
  /\ Rendered
  /\ v \in Viewers /\ Receives(v, "broadcaster-offer")
  /\ viewer[v].clientConfig # NoConfig
  /\ Handled(v)
  /\ LET unstable == pcs[viewer[v].pc].signalingState # "stable"
     IN viewer' = [viewer EXCEPT ![v].awaiting = @ \cup
                     {[pc |-> viewer[v].pc, offer |-> Head(inbox[Sock(v)]).offer.pc,
                       step |-> IF unstable THEN "rollback" ELSE "remote",
                       unstable |-> unstable, rolled |-> FALSE, prev |-> NoPc]}]
  /\ UNCHANGED <<netVars, page, admin, pcs, media, budget>>

\* the remote description behind the pending offer of a peer connection of v
PrevRemote(v, pc) ==
  LET H == {h \in viewer[v].awaiting : h.step = "answer" /\ h.offer = pcs[pc].remoteDescription}
  IN IF pcs[pc].signalingState # "have-remote-offer" THEN pcs[pc].remoteDescription
     ELSE IF H = {} THEN NoPc ELSE (CHOOSE h \in H : TRUE).prev

\* await pc.setLocalDescription({type: "rollback"}); a rejection is caught and
\* the handler goes on
OfferRollback(v) ==
  /\ Rendered
  /\ v \in Viewers
  /\ \E k \in viewer[v].awaiting :
        /\ k.step = "rollback"
        /\ viewer' = [viewer EXCEPT ![v].awaiting =
                        (@ \ {k}) \cup {[k EXCEPT !.step = "remote", !.rolled = TRUE]}]
        /\ IF pcs[k.pc].signalingState = "have-remote-offer"
           THEN pcs' = [pcs EXCEPT ![k.pc].signalingState = "stable",
                                   ![k.pc].remoteDescription = PrevRemote(v, k.pc)]
           ELSE UNCHANGED pcs
  /\ lastEvent' = NoEvent
  /\ UNCHANGED <<hubVars, netVars, inbox, page, admin, media, budget>>

\* await pc.setRemoteDescription(offer); on a closed peer connection it throws
\* and the catch block ends the handler
OfferRemote(v) ==
  /\ Rendered
  /\ v \in Viewers
  /\ \E k \in viewer[v].awaiting :
        /\ k.step = "remote"
        /\ IF pcs[k.pc].closed
           THEN /\ viewer' = [viewer EXCEPT ![v].awaiting = @ \ {k}]
                /\ UNCHANGED pcs
           ELSE /\ viewer' = [viewer EXCEPT ![v].awaiting =
                                (@ \ {k}) \cup {[k EXCEPT !.step = "answer",
                                                          !.prev = PrevRemote(v, k.pc)]}]
                /\ pcs' = [pcs EXCEPT ![k.pc].signalingState = "have-remote-offer",
                                      ![k.pc].remoteDescription = k.offer]
  /\ lastEvent' = NoEvent
  /\ UNCHANGED <<hubVars, netVars, inbox, page, admin, media, budget>>

\* await pc.createAnswer(); await pc.setLocalDescription(answer); the answer is
\* emitted if the socket is connected. Without a pending remote offer
\* createAnswer throws and the catch block ends the handler.
OfferAnswer(v) ==
  /\ Rendered
  /\ v \in Viewers
  /\ \E k \in viewer[v].awaiting :
        /\ k.step = "answer"
        /\ viewer' = [viewer EXCEPT ![v].awaiting = @ \ {k}]
        /\ IF pcs[k.pc].signalingState # "have-remote-offer"
           THEN /\ lastEvent' = NoEvent
                /\ UNCHANGED <<hubVars, inbox, pcs>>
           ELSE /\ pcs' = [pcs EXCEPT ![k.pc].localDescription = k.pc,
                                      ![k.pc].signalingState = "stable"]
                /\ IF Connected(v)
                   THEN ViewerAnswer(Sock(v), [pc |-> k.pc], inbox)
                   ELSE /\ lastEvent' = NoEvent
                        /\ UNCHANGED <<hubVars, inbox>>
  /\ UNCHANGED <<netVars, page, admin, media, budget>>

\* the fault-free run with the viewer's offer handler taken await by await
NextGlare ==
  \/ \E p \in Pages : PageConnect(p)
  \/ \E v \in Viewers : ViewerOnConnect(v)
  \/ \E v \in Viewers : ReceiveClientConfig(v)
  \/ \E a \in Admins : AdminOnConnect(a)
  \/ \E a \in Admins : HandleClientsUpdate(a)
  \/ \E a \in Admins : AdminRender(a)
  \/ \E a \in Admins : HandleNewViewer(a)
  \/ \E a \in Admins : NewViewerOffer(a)
  \/ \E a \in Admins : HandleViewerAnswer(a)
  \/ \E a \in Admins : ViewerAnswerDone(a)
  \/ \E v \in Viewers : OfferArrives(v)
  \/ \E v \in Viewers : OfferRollback(v)
  \/ \E v \in Viewers : OfferRemote(v)
  \/ \E v \in Viewers : OfferAnswer(v)

SpecGlare == InitIce /\ [][NextGlare]_vars

\* the sockets of the ViewerRecords that are connected
ViewerSockets == {s \in open : \E c \in DOMAIN clients :
                                  clients[c].socketId = s /\ clients[c].connected}

\* an offer has been sent to socket s and not lost: it is in flight, or the
\* viewer page on s is handling it or has applied it
Offered(s) ==
  \/ InFlight(s, "broadcaster-offer")
  \/ \E v \in Viewers :
        /\ Sock(v) = s
        /\ \/ viewer[v].awaiting # {}
           \/ viewer[v].pc # NoPc /\ pcs[viewer[v].pc].remoteDescription # NoPc

\* page p handles the message at the head of its inbox, of the given type, in
\* this step
Handles(p, type) ==
  /\ Receives(p, type)
  /\ Len(inbox'[Sock(p)]) < Len(inbox[Sock(p)]) \/ Head(inbox'[Sock(p)]) # Head(inbox[Sock(p)])


\* ------------------------------------------- the hub, messages left waiting
\* The hub under any input as above, but what it emits stays in the inbox of the
\* destination until that socket handles it, in the order of emission
\* (socket.io delivers the packets of one connection in order). The sockets
\* number the ICE candidates they send: 1, 2, ...
OrderBudget == [NoBudget EXCEPT !.ice = MaxOrder]
InitOrder == InitHub /\ InitPages /\ budget = OrderBudget

Stamp == MaxOrder - budget.ice + 1
Room == \A t \in SocketIds : Len(inbox[t]) < MaxQueue
Local == UNCHANGED <<page, admin, viewer, pcs, media>>

OrderConnect ==
  /\ nextSock <= HubSockets
  /\ nextSock' = nextSock + 1
  /\ open' = open \cup {nextSock}
  /\ sockKind' = [sockKind EXCEPT ![nextSock] = "raw"]
  /\ lastEvent' = Event("connection", nextSock, "")
  /\ UNCHANGED <<hubVars, inbox, budget>>
  /\ Local

OrderRegisterAsBroadcaster ==
  \E s \in open :
     Room /\ RegisterAsBroadcaster(s, inbox) /\ UNCHANGED <<netVars, budget>> /\ Local

OrderRegisterAsViewer ==
  \E s \in open :
     /\ Room
     /\ RegisterAsViewer(s, [clientId |-> CHOOSE c \in ClientIds : TRUE, region |-> NoRegion], inbox)
     /\ UNCHANGED <<netVars, budget>> /\ Local

OrderViewerIceCandidate ==
  \E s \in open :
     /\ Room /\ budget.ice > 0
     /\ ViewerIceCandidate(s, [pc |-> 0, n |-> Stamp], inbox)
     /\ budget' = [budget EXCEPT !.ice = @ - 1]
     /\ UNCHANGED netVars /\ Local

OrderBroadcasterIceCandidate ==
  \E s \in open, v \in open :
     /\ Room /\ budget.ice > 0
     /\ BroadcasterIceCandidate(s, v, [pc |-> 0, n |-> Stamp], inbox)
     /\ budget' = [budget EXCEPT !.ice = @ - 1]
     /\ UNCHANGED netVars /\ Local

\* a socket handles the message that has waited longest
OrderReceive ==
  \E s \in open :
     /\ inbox[s] # << >>
     /\ inbox' = [inbox EXCEPT ![s] = Tail(@)]
     /\ lastEvent' = NoEvent
     /\ UNCHANGED <<hubVars, netVars, budget>> /\ Local

\* a socket disconnects: what it had not handled is lost
OrderDisconnect ==
  \E s \in open :
     /\ open' = open \ {s}
     /\ Disconnect(s, open \ {s}, [inbox EXCEPT ![s] = << >>])
     /\ UNCHANGED <<sockKind, nextSock, budget>> /\ Local

NextOrder ==
  \/ OrderConnect
  \/ OrderRegisterAsBroadcaster
  \/ OrderRegisterAsViewer
  \/ OrderViewerIceCandidate
  \/ OrderBroadcasterIceCandidate
  \/ OrderReceive
  \/ OrderDisconnect

SpecOrder == InitOrder /\ [][NextOrder]_vars

\* the numbers of the ICE candidates in a queue, in queue order
RECURSIVE Stamps(_)
Stamps(q) ==
  IF q = << >> THEN << >>
  ELSE IF Head(q).type \in {"viewer-ice-candidate", "broadcaster-ice-candidate"}
       THEN <<Head(q).candidate.n>> \o Stamps(Tail(q))
       ELSE Stamps(Tail(q))

\* ------------------------------------------------------------------ claims
\* C1: after every hub event the broadcaster slot is empty or names one connected
\* socket, and a register-as-broadcaster from a socket leaves that socket, and no
\* other, in the slot, whoever held it before.
C1_AtMostOneBroadcaster ==
  [][/\ broadcaster' = NoSocket \/ broadcaster' \in open'
     /\ lastEvent'.type = "register-as-broadcaster" => broadcaster' = lastEvent'.socket
    ]_vars

\* a registration has replaced another socket in the slot
C1_Witness ==
  /\ lastEvent.type = "register-as-broadcaster"
  /\ lastEvent.prev \notin {NoSocket, lastEvent.socket}
  /\ broadcaster = lastEvent.socket

\* C2: a connect (get-client-config, register-as-viewer), a disconnect or a
\* reconnect of a clientId leaves the region the registry stores for every
\* clientId it already knows as it was.
C2_RegionPreserved ==
  [][lastEvent'.type \in {"get-client-config", "register-as-viewer", "disconnect", "connection"}
       => \A c \in DOMAIN clients : c \in DOMAIN clients' /\ clients'[c].region = clients[c].region
    ]_vars

\* C3: at quiescence the connection table of the registered broadcaster holds
\* exactly one session per ViewerRecord with connected=true and a region, and no
\* other; with no broadcaster registered no admin page holds a session.
C3_SessionParity ==
  Quiescent =>
    IF broadcaster # NoSocket
    THEN \A a \in Broadcasters :
            /\ Cardinality(DOMAIN admin[a].connections) = Cardinality(ConnectedViewers)
            /\ \A c \in ConnectedViewers : clients[c].socketId \in DOMAIN admin[a].connections
    ELSE \A a \in Admins : DOMAIN admin[a].connections = {}

\* C4: when a viewer handles a region-update, its peer connection is neither
\* closed nor replaced by a new one, it does not register again, and Connected
\* does not go from true to false.
C4_RegionUpdateKeepsSession ==
  [][\A v \in Viewers :
        Handles(v, "region-update") /\ viewer[v].pc # NoPc =>
          /\ viewer'[v].pc = viewer[v].pc
          /\ ~pcs'[viewer[v].pc].closed
          /\ lastEvent'.type # "register-as-viewer"
          /\ viewer[v].connected => viewer'[v].connected
    ]_vars

\* C5: every new-viewer the broadcaster handles constructs a new peer connection
\* for that viewer, whose offer is then created, and closes the peer connection
\* of the session it already held for the viewer, if it held one.
C5_FreshSession ==
  [][\A a \in Admins :
        Handles(a, "new-viewer") =>
          LET vid == Head(inbox[Sock(a)]).viewerId
          IN /\ Len(pcs') = Len(pcs) + 1
             /\ vid \in DOMAIN admin'[a].connections
             /\ admin'[a].connections[vid].connection = Len(pcs')
             /\ admin'[a].connections[vid].state = "new"
             /\ \E k \in admin'[a].awaiting : k.kind = "offer" /\ k.pc = Len(pcs')
             /\ vid \in DOMAIN admin[a].connections /\ admin[a].connections[vid].connection # NoPc
                  => pcs'[admin[a].connections[vid].connection].closed
    ]_vars

\* C6: whenever a broadcaster is registered and a viewer is connected, in
\* whichever order they came, the viewer is eventually sent an offer, unless it
\* disconnects or the broadcaster goes first.
C6_EveryViewerOffered ==
  \A s \in SocketIds :
     (broadcaster # NoSocket /\ s \in ViewerSockets)
       ~> (Offered(s) \/ s \notin ViewerSockets \/ broadcaster = NoSocket)

\* C7: when a register-as-broadcaster replaces another socket in the slot, the
\* hub closes the transport of the socket it replaced.
C7_PriorTransportClosed ==
  [][/\ lastEvent'.type = "register-as-broadcaster"
     /\ lastEvent'.prev \notin {NoSocket, lastEvent'.socket}
     => lastEvent'.prev \notin open'
    ]_vars

\* C8: at quiescence the rectangle of every session of the registered broadcaster
\* is the region the registry stores for the ViewerRecord of that socket.
C8_SessionRegionIsRegistryRegion ==
  Quiescent =>
    \A a \in Broadcasters : \A vid \in DOMAIN admin[a].connections :
       \A c \in DOMAIN clients :
          clients[c].socketId = vid /\ clients[c].connected /\ clients[c].region # NoRegion
            => admin[a].connections[vid].region = XYWH(clients[c].region)

\* C9: when the broadcaster handles a clients-update that gives a session a
\* rectangle of the width and height of the rectangle the session has, at another
\* offset, nothing but the rectangle of the session changes: its peer connection
\* is as before, none of its tracks is stopped or replaced, its canvas and canvas
\* stream stay, and no offer is created or sent.
C9_SameSizeMovesCropOnly ==
  [][\A a \in Admins :
        Handles(a, "clients-update") =>
          LET m == Head(inbox[Sock(a)])
              cur == admin[a].connections
          IN \A vid \in DOMAIN cur : \A i \in DOMAIN m.clients :
                LET client == m.clients[i]
                    cd == cur[vid]
                IN /\ client.socketId = vid
                   /\ client.region # NoRegion /\ cd.region # NoRegion
                   /\ XYWH(client.region) # cd.region
                   /\ client.region.width = cd.region.width
                   /\ client.region.height = cd.region.height
                   => /\ pcs' = pcs
                      /\ media'.stopped = media.stopped
                      /\ admin'[a].awaiting = admin[a].awaiting
                      /\ lastEvent'.type # "broadcaster-offer"
                      /\ cd.canvas # NoCanvas =>
                           /\ admin'[a].connections[vid].canvas = cd.canvas
                           /\ admin'[a].connections[vid].canvasStream = cd.canvasStream
    ]_vars

\* C10: the pending-ICE queue of a session of the broadcaster never holds more
\* than 64 candidates.
C10_PendingIceBounded ==
  \A a \in Admins : \A vid \in DOMAIN admin[a].connections :
     Len(admin[a].connections[vid].pendingCandidates) <= 64

\* C11: the hub hands a broadcaster-offer or broadcaster-ice-candidate to the
\* socket the message names, if it is connected, and to no other socket; it hands
\* a viewer-answer or viewer-ice-candidate to the socket in the broadcaster slot
\* at that moment and to no other, with viewerId set to the id of the sending
\* socket.
C11_RoutedToCounterparty ==
  [][LET e == lastEvent'
     IN /\ e.type \in {"broadcaster-offer", "broadcaster-ice-candidate"} =>
             /\ \A t \in SocketIds :
                   inbox'[t] # << >> =>
                     t = e.arg /\ Len(inbox'[t]) = 1 /\ inbox'[t][1].type = e.type
             /\ e.arg \in open => inbox'[e.arg] # << >>
        /\ e.type \in {"viewer-answer", "viewer-ice-candidate"} =>
             /\ \A t \in SocketIds :
                   inbox'[t] # << >> =>
                     /\ t = broadcaster
                     /\ Len(inbox'[t]) = 1
                     /\ inbox'[t][1].type = e.type
                     /\ inbox'[t][1].viewerId = e.socket
             /\ broadcaster \in open => inbox'[broadcaster] # << >>
    ]_vars

\* a viewer-answer of one socket has reached the broadcaster on another socket,
\* tagged with the sender
C11_Witness ==
  /\ lastEvent.type = "viewer-answer"
  /\ broadcaster \in open \ {lastEvent.socket}
  /\ Len(inbox[broadcaster]) = 1
  /\ inbox[broadcaster][1].viewerId = lastEvent.socket
  /\ inbox[lastEvent.socket] = << >>

\* the signaling messages the hub forwards
Signaling ==
  {"broadcaster-offer", "viewer-answer", "broadcaster-ice-candidate", "viewer-ice-candidate"}

\* C12: a viewer-answer or viewer-ice-candidate that finds no broadcaster
\* registered, and a broadcaster-offer or broadcaster-ice-candidate that names a
\* socket that is not connected, reaches nobody and leaves the hub as it was; and
\* the hub emits a signaling message only in the step that handles it, so none is
\* delivered at a later registration or connection.
C12_AbsentCounterpartyDropped ==
  [][LET e == lastEvent'
     IN /\ e.type \in {"viewer-answer", "viewer-ice-candidate"} /\ broadcaster = NoSocket
             => inbox' = EmptyInbox /\ UNCHANGED hubVars
        /\ e.type \in {"broadcaster-offer", "broadcaster-ice-candidate"} /\ e.arg \notin open
             => inbox' = EmptyInbox /\ UNCHANGED hubVars
        /\ \A t \in SocketIds : \A i \in DOMAIN inbox'[t] :
              inbox'[t][i].type \in Signaling => inbox'[t][i].type = e.type
    ]_vars

\* an offer named a socket that had been connected and is gone: nobody was sent
\* anything, though another socket is connected
C12_Witness ==
  /\ lastEvent.type = "broadcaster-offer"
  /\ lastEvent.arg \in (1..(nextSock - 1)) \ open
  /\ open # {}
  /\ inbox = EmptyInbox

C14_UnknownViewerError ==
  [][LET e == lastEvent'
     IN e.type = "update-client-config" /\ e.clientId \notin DOMAIN clients =>
          /\ clients' = clients /\ clientKeys' = clientKeys
          /\ \A t \in SocketIds : \A i \in DOMAIN inbox'[t] :
                inbox'[t][i].type # "clients-update"
          /\ \E i \in DOMAIN inbox'[e.socket] : inbox'[e.socket][i].type = "error"
    ]_vars

\* the clients-update messages in a queue
RECURSIVE RosterEvents(_)
RosterEvents(q) ==
  IF q = << >> THEN 0
  ELSE (IF Head(q).type = "clients-update" THEN 1 ELSE 0) + RosterEvents(Tail(q))

\* C15: a registration, a config request, an update or a disconnect that changes
\* the registry sends every connected socket exactly one clients-update.
C15_OneRosterEventPerMutation ==
  [][/\ lastEvent'.type \in {"register-as-viewer", "get-client-config",
                              "update-client-config", "disconnect"}
     /\ clients' # clients
     => \A t \in open' : RosterEvents(inbox'[t]) = 1
    ]_vars

\* C16: an update-client-config whose region is the region the registry already
\* stores for that clientId sends nobody a clients-update.
C16_SameRegionNoRosterEvent ==
  [][LET e == lastEvent'
     IN /\ e.type = "update-client-config"
        /\ e.clientId \in DOMAIN clients
        /\ e.arg # NoRegion /\ e.arg = clients[e.clientId].region
        => \A t \in SocketIds : RosterEvents(inbox'[t]) = 0
    ]_vars

\* C17: a register-as-viewer for a clientId the registry has a record of leaves
\* the region and the clientId of that record as they were, and leaves every
\* other record as it was: only socketId and connected may change.
C17_DuplicateRegisterKeepsRecord ==
  [][LET e == lastEvent'
         c == e.clientId
     IN e.type = "register-as-viewer" /\ c \in DOMAIN clients =>
          /\ DOMAIN clients' = DOMAIN clients
          /\ clients'[c].clientId = clients[c].clientId
          /\ clients'[c].region = clients[c].region
          /\ \A k \in DOMAIN clients \ {c} : clients'[k] = clients[k]
    ]_vars

\* C18: after an update-client-config that gives an existing record a region
\* naming its source size, the roster snapshot holds for that clientId a region
\* that lies within the source: x + width <= totalWidth, y + height <= totalHeight.
C18_SnapshotRegionClipped ==
  [][LET e == lastEvent'
         snap == Snapshot(clients', clientKeys')
     IN /\ e.type = "update-client-config"
        /\ e.clientId \in DOMAIN clients
        /\ e.arg # NoRegion /\ e.arg.totalWidth > 0 /\ e.arg.totalHeight > 0
        => \A i \in DOMAIN snap :
              snap[i].clientId = e.clientId =>
                /\ snap[i].region.x + snap[i].region.width <= e.arg.totalWidth
                /\ snap[i].region.y + snap[i].region.height <= e.arg.totalHeight
    ]_vars

\* C19: the registry never stores a region of no area.
C19_NoZeroAreaRegion ==
  \A c \in DOMAIN clients :
     clients[c].region # NoRegion => clients[c].region.width > 0 /\ clients[c].region.height > 0

\* C20: at quiescence, once an admin has sent region updates for a clientId, the
\* region the viewer page of that clientId holds is the region of the last update
\* sent.
C20_LastRegionAtViewer ==
  Quiescent /\ budget.sent # NothingSent =>
    \A v \in Viewers :
       Up(v) /\ ClientIdOf(v) = budget.sent.clientId /\ viewer[v].clientConfig # NoConfig
         => XYWH(viewer[v].clientConfig.region) = XYWH(budget.sent.region)

\* C21: of two region updates for one clientId that the hub handles one right
\* after the other, the later one is held back: its handler sends nobody a
\* clients-update (the notification of the pair is sent once, later).
C21_UpdatesCoalesced ==
  [][LET e == lastEvent'
     IN /\ e.type = "update-client-config" /\ e.arg # NoRegion
        /\ lastEvent.type = "update-client-config" /\ lastEvent.arg # NoRegion
        /\ e.clientId = lastEvent.clientId
        /\ e.clientId \in DOMAIN clients
        => \A t \in SocketIds : RosterEvents(inbox'[t]) = 0
    ]_vars

\* C22: while no region has been assigned to any viewer (no admin has sent an
\* update), no broadcaster holds a viewer session, no peer connection carries
\* the full-frame track, and a config a viewer has received has region none.
C22_NoSessionWithoutRegion ==
  budget.sent = NothingSent =>
    /\ \A a \in Admins : DOMAIN admin[a].connections = {}
    /\ \A i \in 1..Len(pcs) : pcs[i].sender # FullTrack
    /\ \A v \in Viewers :
         viewer[v].clientConfig # NoConfig => viewer[v].clientConfig.region = NoRegion

\* the session of admin a for viewer socket s has its offer out and no answer
\* applied: the peer connection of the entry is in have-local-offer
OfferSent(a, s) ==
  /\ s \in DOMAIN admin[a].connections
  /\ admin[a].connections[s].connection # NoPc
  /\ pcs[admin[a].connections[s].connection].signalingState = "have-local-offer"

\* C23: a viewer session whose offer is out does not stay in that state for
\* ever: it is answered, or it is torn down.
C23_NoSessionStaysOfferSent ==
  \A a \in Admins, s \in SocketIds : OfferSent(a, s) ~> ~OfferSent(a, s)

\* C24: no hub event removes a clientId from the registry; a disconnect sets
\* connected to false on every record bound to the leaving socket and changes
\* nothing else in the registry, and it empties the broadcaster slot exactly when
\* the leaving socket held it.
C24_DisconnectKeepsRecords ==
  [][/\ DOMAIN clients \subseteq DOMAIN clients'
     /\ lastEvent'.type = "disconnect" =>
          LET s == lastEvent'.socket
          IN /\ \A c \in DOMAIN clients :
                  clients'[c] = IF clients[c].socketId = s
                                THEN [clients[c] EXCEPT !.connected = FALSE]
                                ELSE clients[c]
             /\ broadcaster' = IF broadcaster = s THEN NoSocket ELSE broadcaster
    ]_vars

\* the socket that held the broadcaster slot and was bound to a connected record
\* has disconnected: the slot is empty, the record is still there, disconnected
C24_Witness ==
  /\ lastEvent.type = "disconnect"
  /\ lastEvent.prev = lastEvent.socket
  /\ broadcaster = NoSocket
  /\ \E c \in DOMAIN clients : clients[c].socketId = lastEvent.socket /\ ~clients[c].connected
  /\ \E c \in DOMAIN clients : clients[c].socketId # lastEvent.socket /\ clients[c].connected

\* C25: when the hub notices the disconnect of a viewer socket for which the
\* registered broadcaster holds a session (it was announced by new-viewer), it
\* sends the broadcaster a viewer-disconnect naming that socket; and when the
\* broadcaster handles a viewer-disconnect, the session of the socket it names
\* is gone: its entry removed, its peer connection closed.
C25_DisconnectedViewerSessionDestroyed ==
  [][/\ \A a \in Admins :
          LET s == lastEvent'.socket
              m == [type |-> "viewer-disconnect", viewerId |-> s]
              b == Sock(a)
          IN /\ lastEvent'.type = "disconnect"
             /\ Up(a) /\ b = broadcaster /\ b = broadcaster'
             /\ s \in DOMAIN admin[a].connections
             => Cardinality({i \in 1..Len(inbox'[b]) : inbox'[b][i] = m})
                  > Cardinality({i \in 1..Len(inbox[b]) : inbox[b][i] = m})
     /\ \A a \in Admins :
          Handles(a, "viewer-disconnect") =>
             LET s == Head(inbox[Sock(a)]).viewerId
             IN /\ s \notin DOMAIN admin'[a].connections
                /\ s \in DOMAIN admin[a].connections
                   /\ admin[a].connections[s].connection # NoPc
                   => pcs'[admin[a].connections[s].connection].closed
    ]_vars

\* C26: when the socket that holds the broadcaster slot disconnects, the slot is
\* emptied and every socket bound to a connected viewer record is sent
\* broadcaster-disconnected.
C26_ViewersToldBroadcasterLeft ==
  [][lastEvent'.type = "disconnect" /\ lastEvent'.prev = lastEvent'.socket
     => /\ broadcaster' = NoSocket
        /\ \A c \in DOMAIN clients' :
             clients'[c].connected /\ clients'[c].socketId \in open'
             => \E i \in 1..Len(inbox'[clients'[c].socketId]) :
                   inbox'[clients'[c].socketId][i].type = "broadcaster-disconnected"
    ]_vars

\* C27: a register-as-viewer, get-client-config or update-client-config that
\* carries no clientId changes nothing: the registry and the broadcaster slot
\* stay as they were and nothing is emitted.
C27_MalformedDropped ==
  [][/\ lastEvent'.type \in {"register-as-viewer", "get-client-config", "update-client-config"}
     /\ lastEvent'.clientId = ""
     => /\ clients' = clients
        /\ clientKeys' = clientKeys
        /\ broadcaster' = broadcaster
        /\ inbox' = EmptyInbox
    ]_vars

\* C28: when the broadcaster handles a clients-update that gives a session with
\* a cropped track a region of another width or height, the session keeps its
\* entry and its peer connection, nothing of any peer connection changes but
\* the track on that sender, no offer is started, and the sender carries a new
\* track captured from a canvas of the new size.
C28_ResizeSwapsTrackOnly ==
  [][\A a \in Admins :
        Handles(a, "clients-update") =>
          LET m == Head(inbox[Sock(a)])
              cur == admin[a].connections
          IN \A vid \in DOMAIN cur : \A i \in DOMAIN m.clients :
                LET client == m.clients[i]
                    cd == cur[vid]
                    pc == cd.connection
                IN /\ client.socketId = vid
                   /\ client.region # NoRegion /\ cd.region # NoRegion
                   /\ \/ client.region.width # cd.region.width
                      \/ client.region.height # cd.region.height
                   /\ cd.canvasStream # NoTrack /\ pc # NoPc
                   /\ ~pcs[pc].closed /\ pcs[pc].sender = cd.canvasStream
                   => /\ vid \in DOMAIN admin'[a].connections
                      /\ admin'[a].connections[vid].connection = pc
                      /\ pcs' = [pcs EXCEPT ![pc].sender = pcs'[pc].sender]
                      /\ admin'[a].awaiting = admin[a].awaiting
                      /\ lastEvent'.type # "broadcaster-offer"
                      /\ pcs'[pc].sender # pcs[pc].sender
                      /\ pcs'[pc].sender = admin'[a].connections[vid].canvasStream
                      /\ admin'[a].connections[vid].canvas = Canvas(client.region)
    ]_vars

\* C29: when the broadcaster finishes handling an answer for a session whose
\* offer is out, the peer connection has the answer as its remote description,
\* every candidate that was in the session's pending queue has been applied to
\* it, the queue is empty and the session is in state connected.
C29_AnswerDrainsPendingIce ==
  [][\A a \in Admins : \A k \in admin[a].awaiting \ admin'[a].awaiting :
        /\ k.kind = "answer"
        /\ pcs[k.pc].signalingState = "have-local-offer"
        /\ k.viewerId \in DOMAIN admin[a].connections
        /\ admin[a].connections[k.viewerId].connection = k.pc
        => /\ pcs'[k.pc].remoteDescription = k.answer
           /\ pcs'[k.pc].applied =
                pcs[k.pc].applied + Len(admin[a].connections[k.viewerId].pendingCandidates)
           /\ admin'[a].connections[k.viewerId].pendingCandidates = << >>
           /\ admin'[a].connections[k.viewerId].state = "connected"
    ]_vars

\* C30: an answer that the broadcaster handles while the session of the viewer
\* it names does not have its offer out (there is no session, it is answered
\* already, or it is closed) changes nothing at the broadcaster: no entry, no
\* peer connection and no pending work; and an answer whose handling ends when
\* the session no longer has its offer out leaves entries and peer connections
\* as they were.
C30_WrongStateAnswerDropped ==
  [][\A a \in Admins :
        /\ Handles(a, "viewer-answer") /\ ~OfferSent(a, Head(inbox[Sock(a)]).viewerId)
           => admin' = admin /\ pcs' = pcs
        /\ \A k \in admin[a].awaiting \ admin'[a].awaiting :
              k.kind = "answer" /\ ~OfferSent(a, k.viewerId)
              => admin'[a].connections = admin[a].connections /\ pcs' = pcs
    ]_vars

\* with no transport lost and no ICE failure so far, the broadcaster has sent the
\* viewer two offers, the viewer has applied and answered both on its one peer
\* connection, and the broadcaster has handled both answers: the session holds
\* one of them, the other one came when the session was answered and was dropped
C30_Witness ==
  /\ budget.drops = MaxDrops /\ budget.fails = MaxFails
  /\ Len(pcs) = 3
  /\ \A i \in 1..Len(pcs) : ~pcs[i].closed
  /\ \E a \in Admins, v \in Viewers :
        /\ Up(a) /\ Up(v)
        /\ admin[a].awaiting = {} /\ viewer[v].awaiting = {}
        /\ inbox[Sock(a)] = << >> /\ inbox[Sock(v)] = << >>
        /\ Sock(v) \in DOMAIN admin[a].connections
        /\ LET e == admin[a].connections[Sock(v)]
           IN /\ e.state = "connected"
              /\ pcs[e.connection].remoteDescription = viewer[v].pc
              /\ \A i \in 1..Len(pcs) :
                    pcs[i].owner = a => pcs[i].peer = Sock(v) /\ pcs[i].localDescription # NoPc
              /\ \E i \in 1..Len(pcs) :
                    pcs[i].owner = a /\ pcs[i].signalingState = "have-local-offer"
              /\ pcs[viewer[v].pc].remoteDescription # NoPc

\* C31: what the broadcaster does with a viewer-ice-candidate depends on the
\* session of the viewer it names alone: with the offer out and no answer applied
\* the candidate is appended to the pending queue and not applied; with an answer
\* applied on an open peer connection it is applied at once and not queued; in
\* any other case nothing changes.
C31_RemoteIceByState ==
  [][\A a \in Admins :
        Handles(a, "viewer-ice-candidate") =>
          LET m == Head(inbox[Sock(a)])
              vid == m.viewerId
              cur == admin[a].connections
              pc == IF vid \in DOMAIN cur THEN cur[vid].connection ELSE NoPc
          IN IF OfferSent(a, vid)
             THEN /\ admin'[a].connections =
                       [cur EXCEPT ![vid].pendingCandidates = Append(@, m.candidate)]
                  /\ pcs' = pcs
             ELSE IF pc # NoPc /\ ~pcs[pc].closed /\ pcs[pc].remoteDescription # NoPc
                  THEN /\ pcs' = [pcs EXCEPT ![pc].applied = @ + 1]
                       /\ admin'[a].connections = cur
                  ELSE admin'[a].connections = cur /\ pcs' = pcs
    ]_vars

\* C32: when the ICE connection of a peer connection of the broadcaster fails,
\* that peer connection is closed and the entry of its viewer is removed from
\* the connection table; the registry and the broadcaster slot stay as they
\* were, nothing is emitted, and no peer connection or offer is started.
C32_IceFailureTearsDown ==
  [][\A id \in 1..Len(pcs) :
        /\ pcs[id].owner \in Admins
        /\ pcs[id].ice # "failed" /\ pcs'[id].ice = "failed"
        => /\ pcs'[id].closed
           /\ pcs[id].peer \notin DOMAIN admin'[pcs[id].owner].connections
           /\ UNCHANGED hubVars
           /\ inbox' = inbox
           /\ Len(pcs') = Len(pcs)
           /\ admin'[pcs[id].owner].awaiting = admin[pcs[id].owner].awaiting
    ]_vars

\* the peer connection of a session has failed: it is closed, the broadcaster
\* holds no entry for its viewer, and the registry still has the viewer's
\* record connected, with its region
C32_Witness ==
  \E id \in 1..Len(pcs) :
     /\ pcs[id].owner \in Admins
     /\ pcs[id].ice = "failed" /\ pcs[id].closed
     /\ pcs[id].peer \notin DOMAIN admin[pcs[id].owner].connections
     /\ \E c \in DOMAIN clients :
           /\ clients[c].socketId = pcs[id].peer
           /\ clients[c].connected /\ clients[c].region # NoRegion


\* C33: on the viewer, an offer that arrives while the peer connection is not
\* stable is handled by a rollback first, then the new offer is applied as
\* remote description, and once no handler is in flight the peer connection is
\* stable with its answer set; a broadcaster's peer connection leaves
\* have-local-offer only by an answer or by being closed, never by a rollback.
C33_ViewerRollsBackThenAnswers ==
  [][/\ \A v \in Viewers :
          /\ \A k \in viewer'[v].awaiting :
                k.unstable /\ k.step # "rollback" => k.rolled
          /\ \A k \in viewer'[v].awaiting \ viewer[v].awaiting :
                k.unstable /\ k.step = "answer" =>
                  /\ pcs'[k.pc].remoteDescription = k.offer
                  /\ pcs'[k.pc].signalingState = "have-remote-offer"
          /\ viewer'[v].awaiting = {} /\ viewer'[v].pc # NoPc /\ ~pcs'[viewer'[v].pc].closed =>
                /\ pcs'[viewer'[v].pc].signalingState = "stable"
                /\ pcs'[viewer'[v].pc].remoteDescription # NoPc
                     => pcs'[viewer'[v].pc].localDescription # NoPc
     /\ \A id \in 1..Len(pcs) :
          pcs[id].owner \in Admins /\ pcs[id].signalingState = "have-local-offer" =>
            \/ pcs'[id].signalingState = "have-local-offer"
            \/ pcs'[id].closed
            \/ pcs'[id].signalingState = "stable" /\ pcs'[id].remoteDescription # NoPc
    ]_vars

C33_Witness ==
  \E v \in Viewers : \E k \in viewer[v].awaiting :
     /\ k.unstable /\ k.rolled /\ k.step = "answer"
     /\ pcs[k.pc].remoteDescription = k.offer
     /\ \E id \in 1..Len(pcs) :
          pcs[id].owner \in Admins /\ pcs[id].signalingState = "stable"


\* C34: while a session's entry and its open peer connection stay in the
\* broadcaster's table, the candidates applied to the peer connection plus the
\* candidates in the pending queue grow by exactly one with every candidate
\* received from that viewer and do not change otherwise: none is lost, none is
\* applied twice.
C34_IceAppliedExactlyOnce ==
  [][\A a \in Admins : \A vid \in DOMAIN admin[a].connections :
        LET e == admin[a].connections[vid]
            pc == e.connection
            got == IF /\ Handles(a, "viewer-ice-candidate")
                      /\ Head(inbox[Sock(a)]).viewerId = vid
                   THEN 1 ELSE 0
        IN /\ pc # NoPc /\ ~pcs[pc].closed /\ ~pcs'[pc].closed
           /\ vid \in DOMAIN admin'[a].connections
           /\ admin'[a].connections[vid].connection = pc
           => pcs'[pc].applied + Len(admin'[a].connections[vid].pendingCandidates)
                = pcs[pc].applied + Len(e.pendingCandidates) + got
    ]_vars


\* C35: every entry of the broadcaster's connection table holds a peer
\* connection: no update of a handler that was in flight when the entry was
\* removed leaves an entry without one behind.
C35_EntriesHoldPeerConnection ==
  \A a \in Admins : \A vid \in DOMAIN admin[a].connections :
     admin[a].connections[vid].connection # NoPc


\* C36: the disconnect of a transport that a ViewerRecord does not name leaves
\* that record as it is; a record that has moved to a new transport stays
\* connected on the new transport when its old transport disconnects.
C36_StaleDisconnectIgnored ==
  [][lastEvent'.type = "disconnect" =>
       \A c \in DOMAIN clients :
          clients[c].socketId # lastEvent'.socket =>
            /\ c \in DOMAIN clients'
            /\ clients'[c] = clients[c]
            /\ clients[c].connected =>
                 clients'[c].connected /\ clients'[c].socketId = clients[c].socketId
    ]_vars

\* the old transport of a viewer, for which the broadcaster holds a session, has
\* disconnected after the viewer registered again on a new transport
C36_Witness ==
  /\ lastEvent.type = "disconnect"
  /\ lastEvent.socket \notin open
  /\ \E a \in Admins : lastEvent.socket \in DOMAIN admin[a].connections
  /\ \E v \in Viewers : \E c \in DOMAIN clients :
        /\ Connected(v)
        /\ clients[c].socketId = Sock(v)
        /\ clients[c].socketId # lastEvent.socket
        /\ clients[c].connected


\* C37: for every viewerId the broadcaster has at most one open peer
\* connection, and a new-viewer handled while the table holds a session for
\* that viewerId with an open peer connection constructs no peer connection.
C37_OnePeerConnectionPerViewer ==
  [][/\ \A a \in Admins : \A i, j \in 1..Len(pcs') :
          /\ pcs'[i].owner = a /\ pcs'[j].owner = a
          /\ pcs'[i].peer = pcs'[j].peer
          /\ ~pcs'[i].closed /\ ~pcs'[j].closed
          => i = j
     /\ \A a \in Admins :
          Handles(a, "new-viewer") =>
            LET vid == Head(inbox[Sock(a)]).viewerId
                cur == admin[a].connections
            IN vid \in DOMAIN cur /\ cur[vid].connection # NoPc /\ ~pcs[cur[vid].connection].closed
                 => Len(pcs') = Len(pcs)
    ]_vars


\* C38: a broadcaster-offer or broadcaster-ice-candidate that names a connected
\* viewer and is sent by a socket that does not hold the broadcaster slot is
\* not delivered to that viewer.
C38_OnlyBroadcasterForwarded ==
  [][LET e == lastEvent'
     IN /\ e.type \in {"broadcaster-offer", "broadcaster-ice-candidate"}
        /\ e.socket # broadcaster
        /\ e.arg # e.socket
        /\ \E c \in DOMAIN clients : clients[c].socketId = e.arg /\ clients[c].connected
        => inbox'[e.arg] = << >>
    ]_vars


\* C39: when the ICE connection of the viewer's peer connection fails while the
\* viewer's socket is connected and the hook is mounted, the viewer emits
\* register-as-viewer again (the timeout of 2 s is taken with the step).
C39_ViewerReRegistersOnIceFailure ==
  [][\A v \in Viewers :
        /\ viewer[v].pc # NoPc
        /\ ~pcs[viewer[v].pc].closed
        /\ pcs[viewer[v].pc].ice # "failed"
        /\ pcs'[viewer[v].pc].ice = "failed"
        /\ Connected(v)
        => /\ lastEvent'.type = "register-as-viewer"
           /\ lastEvent'.socket = Sock(v)
    ]_vars

====
